---- MODULE Spec2Model ----
(***************************************************************************)
(* Burn queue and guidance controller of the orbit sandbox.               *)
(*                                                                         *)
(* The repository holds several rewrites of the class OrbitalAutopilot,    *)
(* modelled here side by side and selected by the variable "variant".      *)
(* Three of them keep a burn queue:                                        *)
(*   "fixed"   src/unnamed/part_002          (final fixed 4-DOF)           *)
(*   "perturb" src/unnamed/part_001:13-521   (perturbation models)         *)
(*   "adv"     src/unnamed/part_001:868-1629 (fuel-aware, chunking)        *)
(* and one calls the thruster callback directly:                           *)
(*   "pid"     src/unnamed/part_000          (PID controller)              *)
(*                                                                         *)
(* Units.  Numbers of the source are scaled to integers:                   *)
(*   delta-v          1 unit = 0.0001 m/s                                  *)
(*   angles           1 unit = pi/3142 rad (about one milliradian)         *)
(*   eccentricity     1 unit = 0.0001                                      *)
(*   distances        1 unit = 0.1 km                                      *)
(*   time             1 unit = 1 s                                         *)
(*   propellant       1 unit = 0.01 kg                                     *)
(***************************************************************************)
EXTENDS Integers, Sequences, FiniteSets, TLC

VARIABLES
  variant,        \* which rewrite of OrbitalAutopilot this instance is
  burnQueue,      \* this.burnQueue
  ctl,            \* the other fields of the OrbitalAutopilot object
  env,            \* the driver: preset, orbit, propellant, clocks
  obs,            \* what the last operation did (for the claims)
  hist,           \* when the queue last fired and each warning was last logged,
                  \* and how many emergency burns were fired
  qcalls,         \* number of direct queueBurn calls made so far (bounded)
  qlog            \* the last two queue operations, for the queue claims

vars == <<variant, burnQueue, ctl, env, obs, hist, qcalls, qlog>>

\* the rewrites that keep a burn queue
Variants == {"fixed", "perturb", "adv"}

AllVariants == Variants \cup {"pid"}

-----------------------------------------------------------------------------
(* Arithmetic helpers *)

Abs(x) == IF x < 0 THEN -x ELSE x

Min(a, b) == IF a <= b THEN a ELSE b

Max(a, b) == IF a >= b THEN a ELSE b

RECURSIVE SumDv(_)
SumDv(s) == IF s = <<>> THEN 0 ELSE Head(s).dv + SumDv(Tail(s))

\* Number.prototype.toFixed(2) on a delta-v: rounds to the nearest 0.01 m/s.
ToFixed2(x) == ((x + 50) \div 100) * 100

-----------------------------------------------------------------------------
(* Angles.  Math.PI is 3142 units, so 0.15 rad is 150 units. *)

Pi == 3142

TwoPi == 2 * Pi

\* cos(d) > 0.999 exactly when |d| < 0.0447 rad
CosTol == 45

\* |b.dir . unitDir| > 0.999: the two unit vectors are parallel or antiparallel
\* to within CosTol (the source takes Math.abs of the dot product).
DotAbsAbove999(a, b) ==
  LET d == (a - b) % Pi
  IN d < CosTol \/ d > Pi - CosTol

-----------------------------------------------------------------------------
(* queueBurn, one definition per rewrite *)

MinBurnFixed == 2000

MinBurnPerturb == 1500

MinBurnAdv == 2000

DupTolSimple == 1000

DupTolAdv == 100

MaxChunk == 20000

LoopEps == 1

\* a reason string: its fixed text k, the tuple p of the numbers formatted into
\* it, and the
\* chunk suffix c appended by part_001:1489 (-1: none)
Reason(k, p) == [k |-> k, p |-> p, c |-> -1]

Entry(dv, dir, reason, thruster) ==
  [dv |-> dv, dir |-> dir, reason |-> reason, thruster |-> thruster]

\* queueBurnFixed without its duplicate test
queueBurnFixedNoDedup(q, dv, dir, reason, thruster) ==
  IF dv > MinBurnFixed THEN Append(q, Entry(dv, dir, reason, thruster)) ELSE q

\* part_002:169-180
queueBurnFixed(q, dv, dir, reason, thruster) ==
  IF dv > MinBurnFixed
  THEN LET isDuplicate == \E i \in 1..Len(q) :
                             q[i].reason = reason /\ Abs(q[i].dv - dv) < DupTolSimple
       IN IF ~isDuplicate THEN Append(q, Entry(dv, dir, reason, thruster)) ELSE q
  ELSE q

\* part_001:278-289
queueBurnPerturb(q, dv, dir, reason, thruster) ==
  IF dv > MinBurnPerturb
  THEN LET isDuplicate == \E i \in 1..Len(q) :
                             q[i].reason = reason /\ Abs(q[i].dv - dv) < DupTolSimple
       IN IF ~isDuplicate THEN Append(q, Entry(dv, dir, reason, thruster)) ELSE q
  ELSE q

\* the reason of a chunk: the caller's reason, or the reason with the chunk's
\* size appended unless the chunk is the last one (part_001:1489)
ChunkReason(reason, remaining, chunk) ==
  IF remaining = chunk THEN reason ELSE [reason EXCEPT !.c = ToFixed2(chunk)]

\* the while loop of part_001:1486-1501
RECURSIVE ChunkLoop(_, _, _, _, _, _)
ChunkLoop(q, remaining, sign, dir, reason, thruster) ==
  IF remaining > LoopEps
  THEN LET chunk == Min(remaining, MaxChunk)
           chunkDv == chunk * sign
           chunkReason == ChunkReason(reason, remaining, chunk)
           isDuplicate == \E i \in 1..Len(q) :
                             /\ Abs(q[i].dv - chunkDv) < DupTolAdv
                             /\ DotAbsAbove999(q[i].dir, dir)
                             /\ q[i].reason = chunkReason
       IN IF ~isDuplicate
          THEN ChunkLoop(Append(q, Entry(chunkDv, dir, chunkReason, thruster)),
                         remaining - chunk, sign, dir, reason, thruster)
          ELSE ChunkLoop(q, remaining - chunk, sign, dir, reason, thruster)
  ELSE q

\* part_001:1476-1502.  The class body defines queueBurn twice (1221 and 1476);
\* the later definition is the one the class keeps.
queueBurnAdv(q, dv, dir, reason, thruster) ==
  IF dv <= MinBurnAdv
  THEN q
  ELSE ChunkLoop(q, Abs(dv), IF dv >= 0 THEN 1 ELSE -1, dir, reason, thruster)

queueBurn(v, q, dv, dir, reason, thruster) ==
  CASE v = "fixed"   -> queueBurnFixed(q, dv, dir, reason, thruster)
    [] v = "perturb" -> queueBurnPerturb(q, dv, dir, reason, thruster)
    [] v = "adv"     -> queueBurnAdv(q, dv, dir, reason, thruster)

\* what a call appended: the queue only grows at its end
Added(before, after) == SubSeq(after, Len(before) + 1, Len(after))

-----------------------------------------------------------------------------
(* The inputs of update: constraints, propellant, orbit.                    *)

\* earthRadius = 6371000 m
EarthRadius == 63710

\* JavaScript's x || d on a number: 0, undefined and NaN are all falsy.  A
\* field a preset does not have is modelled as 0.
OrElse(x, d) == IF x = 0 THEN d ELSE x

\* JavaScript's % keeps the sign of the dividend
JsRem(a, b) == IF a >= 0 THEN a % b ELSE -((-a) % b)

Thresholds(w, v, c) == [warning |-> w, violation |-> v, critical |-> c]

\* a threshold field the constraints object does not have
NoThresholds == Thresholds(0, 0, 0)

\* orbitConstraints[400], [20200] and [42000] of the driver.  The driver
\* passes these objects to update as they are; orbitConstraints[20200] has a
\* semiMajorAxis_km field in place of altitude_km.
orbitConstraints(alt) ==
  CASE alt = 400 ->
         [name |-> "LEO_400km", targetAlt |-> 4000, perigeeAlt |-> 0,
          targetEccentricity |-> 0, targetVelocity |-> 7672,
          altitude_km |-> Thresholds(50, 150, 300),
          velocity_ms |-> Thresholds(20, 50, 100),
          eccentricity |-> Thresholds(5, 20, 50)]
    [] alt = 20200 ->
         [name |-> "MEO_20200km", targetAlt |-> 202000, perigeeAlt |-> 0,
          targetEccentricity |-> 0, targetVelocity |-> 3873,
          altitude_km |-> NoThresholds,
          velocity_ms |-> Thresholds(15, 30, 60),
          eccentricity |-> Thresholds(20, 50, 100)]
    [] alt = 42000 ->
         [name |-> "HEO_42000km_Molniya", targetAlt |-> 420000, perigeeAlt |-> 10000,
          targetEccentricity |-> 7200, targetVelocity |-> 2871,
          altitude_km |-> Thresholds(20000, 40000, 80000),
          velocity_ms |-> Thresholds(1000, 2000, 4000),
          eccentricity |-> Thresholds(500, 1000, 2000)]

PresetAlts == {400, 42000}

\* the presets whose constraints update is called with
ConstraintAlts == PresetAlts \cup {20200}

\* constraints.targetEccentricity && constraints.targetEccentricity > 0.5
isMolniya(constraints) == constraints.targetEccentricity > 5000

\* propellant inventories, in 0.01 kg.  The objects the driver passes carry no
\* propellantRemaining field, which update reads as zero of every kind; the
\* other inventories are those of propulsionPresets[400] and [42000].
NoPropellant == [hydrazine |-> 0, xenon |-> 0, biprop |-> 0]

propellantOf(alt) ==
  CASE alt = 400   -> [hydrazine |-> 6000, xenon |-> 500, biprop |-> 0]
    [] alt = 20200 -> [hydrazine |-> 3000, xenon |-> 1800, biprop |-> 0]
    [] alt = 42000 -> [hydrazine |-> 0, xenon |-> 3000, biprop |-> 12000]

dryMass(alt) == IF alt = 400 THEN 200 ELSE IF alt = 20200 THEN 1500 ELSE 1800

\* getCurrentMass(), in kg
getCurrentMass(alt) ==
  LET p == propellantOf(alt)
  IN dryMass(alt) + (p.hydrazine + p.xenon + p.biprop) \div 100

\* true anomalies at which update is sampled (0.1 rad, 180 deg, 315 deg)
NuSet == {100, 3142, 5499}

\* The satellite's state (pos, vel) is represented by the elements of its
\* orbit and its true anomaly.  For each sampled orbit the table holds what the
\* source computes from (pos, vel) with Math.sqrt, Math.exp and Math.sin:
\*   sma, ecc     getSMA, getEccentricity          (0.1 km, 0.0001)
\*   period       2 pi sqrt(sma^3 / mu)            (s)
\*   inclErr      |L - sqrt(mu sma)| / sqrt(mu sma) (1e-6)
\*   alt, vel     altitude and speed at each anomaly (0.1 km, m/s)
\*   fpa          flight-path angle at each anomaly
\*   hohmann      HohmannPlanner.planTransfer from the altitude at each anomaly
\*                to the preset's target altitude, totalDv (0: null)
\*   expF, expP   the exponential branch of calculateDragAcceleration of
\*                part_002/part_001:1504 and of part_001:500 (1e-10 m/s^2)
\*   j2needs, j2dv, j2deg   calculateJ2Perturbation (part_001:339-394)
OrbitIds == {"L1", "L2", "L3", "L4", "L5", "H1", "H2", "H3", "H4", "F1", "E1", "E2",
             "M1"}

\* the rows of the table that hold a state on an escape trajectory
EscapeOrbits == {"E1", "E2"}

Orbit(id) ==
  CASE id = "L1" ->
       [id |-> "L1", sma |-> 67710, ecc |-> 2, period |-> 5545,
        inclErr |-> 0,
        alt |-> (100 :> 3987 @@ 3142 :> 4014 @@ 5499 :> 3990),
        vel |-> (100 :> 7674 @@ 3142 :> 7671 @@ 5499 :> 7674),
        fpa |-> (100 :> 0 @@ 3142 :> 0 @@ 5499 :> 0),
        hohmann |-> (100 :> 7367 @@ 3142 :> 0 @@ 5499 :> 5666),
        expF |-> (100 :> 5469 @@ 3142 :> 5246 @@ 5499 :> 5436),
        expP |-> (100 :> 22 @@ 3142 :> 21 @@ 5499 :> 22),
        j2needs |-> TRUE, j2dv |-> 20000, j2deg |-> 1617]
    [] id = "L2" ->
       [id |-> "L2", sma |-> 67810, ecc |-> 40, period |-> 5557,
        inclErr |-> 8,
        alt |-> (100 :> 3830 @@ 3142 :> 4371 @@ 5499 :> 3908),
        vel |-> (100 :> 7698 @@ 3142 :> 7636 @@ 5499 :> 7689),
        fpa |-> (100 :> 0 @@ 3142 :> 0 @@ 5499 :> -3),
        hohmann |-> (100 :> 96500 @@ 3142 :> 0 @@ 5499 :> 52178),
        expF |-> (100 :> 6957 @@ 3142 :> 3026 @@ 5499 :> 6175),
        expP |-> (100 :> 28 @@ 3142 :> 12 @@ 5499 :> 25),
        j2needs |-> TRUE, j2dv |-> 20000, j2deg |-> 1608]
    [] id = "L3" ->
       [id |-> "L3", sma |-> 67810, ecc |-> 2, period |-> 5557,
        inclErr |-> 0,
        alt |-> (100 :> 4087 @@ 3142 :> 4114 @@ 5499 :> 4090),
        vel |-> (100 :> 7668 @@ 3142 :> 7665 @@ 5499 :> 7668),
        fpa |-> (100 :> 0 @@ 3142 :> 0 @@ 5499 :> 0),
        hohmann |-> (100 :> 0 @@ 3142 :> 0 @@ 5499 :> 0),
        expF |-> (100 :> 4689 @@ 3142 :> 4498 @@ 5499 :> 4661),
        expP |-> (100 :> 19 @@ 3142 :> 18 @@ 5499 :> 19),
        j2needs |-> TRUE, j2dv |-> 20000, j2deg |-> 1608]
    [] id = "L4" ->
       [id |-> "L4", sma |-> 65200, ecc |-> 15, period |-> 5239,
        inclErr |-> 1,
        alt |-> (100 :> 1393 @@ 3142 :> 1588 @@ 5499 :> 1421),
        vel |-> (100 :> 7831 @@ 3142 :> 7807 @@ 5499 :> 7827),
        fpa |-> (100 :> 0 @@ 3142 :> 0 @@ 5499 :> -1),
        hohmann |-> (100 :> 1520992 @@ 3142 :> 1404100 @@ 5499 :> 1504175),
        expF |-> (100 :> 0 @@ 3142 :> 219095 @@ 5499 :> 0),
        expP |-> (100 :> 0 @@ 3142 :> 690 @@ 5499 :> 0),
        j2needs |-> TRUE, j2dv |-> 20000, j2deg |-> 1845]
    [] id = "L5" ->
       [id |-> "L5", sma |-> 77000, ecc |-> 1200, period |-> 6724,
        inclErr |-> 7226,
        alt |-> (100 :> 4086 @@ 3142 :> 22530 @@ 5499 :> 6243),
        vel |-> (100 :> 8113 @@ 3142 :> 6378 @@ 5499 :> 7886),
        fpa |-> (100 :> 11 @@ 3142 :> 0 @@ 5499 :> -78),
        hohmann |-> (100 :> 0 @@ 3142 :> 0 @@ 5499 :> 0),
        expF |-> (100 :> 4691 @@ 3142 :> 0 @@ 5499 :> 170),
        expP |-> (100 :> 19 @@ 3142 :> 0 @@ 5499 :> 4),
        j2needs |-> TRUE, j2dv |-> 20000, j2deg |-> 1031]
    [] id = "H1" ->
       [id |-> "H1", sma |-> 278710, ecc |-> 7200, period |-> 46306,
        inclErr |-> 306026,
        alt |-> (100 :> 14492 @@ 3142 :> 415671 @@ 5499 :> 25219),
        vel |-> (100 :> 9362 @@ 3142 :> 1526 @@ 5499 :> 8680),
        fpa |-> (100 :> 42 @@ 3142 :> 0 @@ 5499 :> -325),
        hohmann |-> (100 :> 35844719 @@ 3142 :> 129322 @@ 5499 :> 32777545),
        expF |-> (100 :> 4 @@ 3142 :> 0 @@ 5499 :> 0),
        expP |-> (100 :> 0 @@ 3142 :> 0 @@ 5499 :> 0),
        j2needs |-> FALSE, j2dv |-> 0, j2deg |-> 0]
    [] id = "H2" ->
       [id |-> "H2", sma |-> 278710, ecc |-> 6000, period |-> 46306,
        inclErr |-> 200000,
        alt |-> (100 :> 47983 @@ 3142 :> 382226 @@ 5499 :> 61511),
        vel |-> (100 :> 7555 @@ 3142 :> 1891 @@ 5499 :> 7026),
        fpa |-> (100 :> 37 @@ 3142 :> 0 @@ 5499 :> -289),
        hohmann |-> (100 :> 27532187 @@ 3142 :> 1190610 @@ 5499 :> 24990723),
        expF |-> (100 :> 0 @@ 3142 :> 0 @@ 5499 :> 0),
        expP |-> (100 :> 0 @@ 3142 :> 0 @@ 5499 :> 0),
        j2needs |-> FALSE, j2dv |-> 0, j2deg |-> 0]
    [] id = "H3" ->
       [id |-> "H3", sma |-> 280710, ecc |-> 7200, period |-> 46806,
        inclErr |-> 306026,
        alt |-> (100 :> 15053 @@ 3142 :> 419111 @@ 5499 :> 25857),
        vel |-> (100 :> 9328 @@ 3142 :> 1520 @@ 5499 :> 8649),
        fpa |-> (100 :> 42 @@ 3142 :> 0 @@ 5499 :> -325),
        hohmann |-> (100 :> 35672015 @@ 3142 :> 26416 @@ 5499 :> 32609327),
        expF |-> (100 :> 3 @@ 3142 :> 0 @@ 5499 :> 0),
        expP |-> (100 :> 0 @@ 3142 :> 0 @@ 5499 :> 0),
        j2needs |-> FALSE, j2dv |-> 0, j2deg |-> 0]
    \* the orbit setOrbit(42000) starts from: apogee 42000 km, perigee 1000 km
    \* (main.js:338-351)
    [] id = "H4" ->
       [id |-> "H4", sma |-> 278710, ecc |-> 7355, period |-> 46306,
        inclErr |-> 322510,
        alt |-> (100 :> 10156 @@ 3142 :> 420000 @@ 5499 :> 20432),
        vel |-> (100 :> 9676 @@ 3142 :> 1476 @@ 5499 :> 8969),
        fpa |-> (100 :> 42 @@ 3142 :> 0 @@ 5499 :> -330),
        hohmann |-> (100 :> 37232203 @@ 3142 :> 0 @@ 5499 :> 34087920),
        expF |-> (100 :> 88 @@ 3142 :> 0 @@ 5499 :> 0),
        expP |-> (100 :> 0 @@ 3142 :> 0 @@ 5499 :> 0),
        j2needs |-> FALSE, j2dv |-> 0, j2deg |-> 0]
    \* the circular orbit of the MEO preset, 20200 km up
    [] id = "M1" ->
       [id |-> "M1", sma |-> 265710, ecc |-> 2, period |-> 43105,
        inclErr |-> 0,
        alt |-> (100 :> 201947 @@ 3142 :> 202053 @@ 5499 :> 201962),
        vel |-> (100 :> 3874 @@ 3142 :> 3872 @@ 5499 :> 3874),
        fpa |-> (100 :> 0 @@ 3142 :> 0 @@ 5499 :> 0),
        hohmann |-> (100 :> 3863 @@ 3142 :> 0 @@ 5499 :> 2770),
        expF |-> (100 :> 0 @@ 3142 :> 0 @@ 5499 :> 0),
        expP |-> (100 :> 0 @@ 3142 :> 0 @@ 5499 :> 0),
        j2needs |-> TRUE, j2dv |-> 20000, j2deg |-> 14]
    \* a far orbit, reached from the HEO preset by prograde thrust at perigee:
    \* a = 150000 km, e = 0.85
    [] id = "F1" ->
       [id |-> "F1", sma |-> 1500000, ecc |-> 8500, period |-> 578160,
        inclErr |-> 473217,
        alt |-> (100 :> 161808 @@ 3142 :> 2711290 @@ 5499 :> 196228),
        vel |-> (100 :> 5718 @@ 3142 :> 464 @@ 5499 :> 5293),
        fpa |-> (100 :> 46 @@ 3142 :> 0 @@ 5499 :> -359),
        hohmann |-> (100 :> 12873744 @@ 3142 :> 0 @@ 5499 :> 10209318),
        expF |-> (100 :> 0 @@ 3142 :> 0 @@ 5499 :> 0),
        expP |-> (100 :> 0 @@ 3142 :> 0 @@ 5499 :> 0),
        j2needs |-> FALSE, j2dv |-> 0, j2deg |-> 0]
    \* Escape states, the velocity perpendicular to the radius at each sampled
    \* angle.  E1, met under the LEO preset: 407.1 km up at 12000 m/s (energy
    \* +1.32e7 J/kg).  E2, met under the HEO preset: 21500 km up at 6000 m/s
    \* (energy +3.7e6 J/kg).  getEccentricity returns 1.0 and getSMA returns r
    \* for them; pidSma and pidEcc hold what part_000:86-90, which has no
    \* energy test, computes.
    [] id = "E1" ->
       [id |-> "E1", sma |-> 67781, ecc |-> 10000, period |-> 5554,
        inclErr |-> 564827,
        alt |-> (100 :> 4071 @@ 3142 :> 4071 @@ 5499 :> 4071),
        vel |-> (100 :> 12000 @@ 3142 :> 12000 @@ 5499 :> 12000),
        fpa |-> (100 :> 0 @@ 3142 :> 0 @@ 5499 :> 0),
        hohmann |-> (100 :> 0 @@ 3142 :> 0 @@ 5499 :> 0),
        expF |-> (100 :> 4802 @@ 3142 :> 4802 @@ 5499 :> 4802),
        expP |-> (100 :> 19 @@ 3142 :> 19 @@ 5499 :> 19),
        j2needs |-> FALSE, j2dv |-> 0, j2deg |-> 1,
        pidSma |-> -151043, pidEcc |-> 14488]
    [] id = "E2" ->
       [id |-> "E2", sma |-> 278710, ecc |-> 10000, period |-> 46306,
        inclErr |-> 586568,
        alt |-> (100 :> 215000 @@ 3142 :> 215000 @@ 5499 :> 215000),
        vel |-> (100 :> 6000 @@ 3142 :> 6000 @@ 5499 :> 6000),
        fpa |-> (100 :> 0 @@ 3142 :> 0 @@ 5499 :> 0),
        hohmann |-> (100 :> 8942692 @@ 3142 :> 8942692 @@ 5499 :> 8942692),
        expF |-> (100 :> 0 @@ 3142 :> 0 @@ 5499 :> 0),
        expP |-> (100 :> 0 @@ 3142 :> 0 @@ 5499 :> 0),
        j2needs |-> FALSE, j2dv |-> 0, j2deg |-> 0,
        pidSma |-> -538811, pidEcc |-> 15173]

\* the orbits sampled under each preset
OrbitsOf(alt) ==
  IF alt = 400 THEN {"L1", "L2", "L3", "L4", "L5", "E1"}
  ELSE IF alt = 20200 THEN {"M1"}
  ELSE {"H1", "H2", "H3", "H4", "E2"}

\* part_000:86-90: the elements the PID controller computes itself
semiMajorAxisPid(o) == IF o.id \in EscapeOrbits THEN o.pidSma ELSE o.sma

eccentricityPid(o) == IF o.id \in EscapeOrbits THEN o.pidEcc ELSE o.ecc

-----------------------------------------------------------------------------
(* Geometry.  A unit vector is represented by its angle. *)

\* Math.atan2(pos.y, pos.x), in (-pi, pi], for a satellite at true anomaly nu
\* on an orbit whose perigee lies at angle omega
AngleFromXAxis(nu, omega) ==
  LET a == (nu + omega) % TwoPi
  IN IF a > Pi THEN a - TwoPi ELSE a

radialUnit(theta) == theta % TwoPi

\* { x: -radialUnit.y, y: radialUnit.x }
progradeUnit(theta) == (theta + Pi \div 2) % TwoPi

\* { x: -progradeUnit.x, y: -progradeUnit.y }
retrogradeUnit(theta) == (theta + Pi + Pi \div 2) % TwoPi

\* the fixed vectors { x: 1, y: 0 } and { x: -1, y: 0 }
PlusX == 0

MinusX == Pi

\* state.vel / |state.vel| on a counter-clockwise orbit
vUnit(theta, fpa) == (theta + Pi \div 2 - fpa) % TwoPi

\* burn.dir.x * vUnit.x + burn.dir.y * vUnit.y >= 0
DotNonNegative(dir, v) ==
  LET d == (dir - v) % TwoPi
  IN d <= Pi \div 2 \/ d >= TwoPi - Pi \div 2

\* 0.15 rad and 0.25 rad
WindowTol == 150

WindowTolPerturb == 250

\* part_002:43-44 and part_001:1280-1281: one correction, for negative values only
trueAnomalyOf(theta, argumentOfPerigee) ==
  LET ta == theta - argumentOfPerigee
  IN IF ta < 0 THEN ta + TwoPi ELSE ta

\* part_002:56-57, part_001:1293-1294
nearPerigeeOf(ta) == Abs(ta) < WindowTol \/ Abs(ta - TwoPi) < WindowTol

nearApogeeOf(ta) == Abs(ta - Pi) < WindowTol

-----------------------------------------------------------------------------
(* Drag *)

\* calculateDragAcceleration returns 0.5 m/s^2 below 150 km (part_002:184,
\* part_001:1505) and 1.0 m/s^2 in part_001:502; in 0.1 m/s^2
CrashDrag(v) == IF v = "perturb" THEN 10 ELSE 5

\* the share of the period the drag is integrated over: 0.7 (part_002:67,
\* part_001:1424) and 0.65 (part_001:70), in percent
DragShare(v) == IF v = "perturb" THEN 65 ELSE 70

ExpDrag(v, o, nu) == IF v = "perturb" THEN o.expP[nu] ELSE o.expF[nu]

\* dragAccel > 1e-10 (part_002:65, part_001:1422), dragAccel > 1e-9 (part_001:68)
dragAccelSignificant(v, o, nu) ==
  \/ o.alt[nu] < 1500
  \/ ExpDrag(v, o, nu) >= (IF v = "perturb" THEN 10 ELSE 1)

\* dragAccel * period * share, in 0.0001 m/s
dragDvPerOrbit(v, o, nu) ==
  IF o.alt[nu] < 1500
  THEN CrashDrag(v) * o.period * DragShare(v) * 10
  ELSE (((ExpDrag(v, o, nu) * o.period) \div 1000) * DragShare(v)) \div 100000

-----------------------------------------------------------------------------
(* The controller object and the result of one update *)

Undefined == -1

NewPID == [integral |-> 0, lastError |-> 0]

\* the fields the constructors set (part_002:8-15, part_001:14-20,
\* part_001:869-895, part_000:13-38); a rewrite that lacks a field never
\* reads or writes it
NewAutopilot ==
  [enabled |-> FALSE, rescueMode |-> FALSE, lastBurnTime |-> 0,
   argumentOfPerigee |-> 0, targetArgumentOfPerigee |-> Undefined,
   lastCorrectionTime |-> 0, burnSmoothingBuffer |-> <<>>,
   lastFuelWarning |-> Undefined, lastBudgetWarning |-> Undefined,
   lastFuelWarningTime |-> Undefined, lastManeuverWarningTime |-> Undefined,
   lastDragWarningTime |-> Undefined,
   altitudePID |-> NewPID, velocityPID |-> NewPID]

\* what one call of update did: the controller and the queue it leaves, the
\* queue as it stood before the execute step, the callbacks made and the
\* warnings logged
Outcome(c, enq, q, fired, warned) ==
  [ctl |-> c, enq |-> enq, q |-> q, fired |-> fired, warned |-> warned, threw |-> FALSE]

\* update ended with an uncaught TypeError; the assignments made before it stay
Threw(c, q) == [Outcome(c, q, q, <<>>, {}) EXCEPT !.threw = TRUE]

\* fireThrusterCallback(dv, thruster[, dir])
Fired(dv, thruster, dir, burn, src) ==
  [dv |-> dv, thruster |-> thruster, dir |-> dir, burn |-> burn, src |-> src]

\* ExecuteSigned without the wait for the interval
ExecuteSignedNoWait(c, q, in, interval, warned) ==
  IF q # <<>>
  THEN LET burn == Head(q)
           v == vUnit(in.theta, in.orbit.fpa[in.nu])
           dvToApply == burn.dv * (IF DotNonNegative(burn.dir, v) THEN 1 ELSE -1)
       IN Outcome([c EXCEPT !.lastBurnTime = in.missionTime], q, Tail(q),
                  <<Fired(dvToApply, burn.thruster, Undefined, burn, "queue")>>, warned)
  ELSE Outcome(c, q, q, <<>>, warned)

\* the execute step of part_002:151-164 and part_001:260-273: the head of the
\* queue is fired with the sign of its direction along the current velocity
ExecuteSigned(c, q, in, interval, warned) ==
  IF q # <<>> /\ in.missionTime - c.lastBurnTime > interval
  THEN LET burn == Head(q)
           v == vUnit(in.theta, in.orbit.fpa[in.nu])
           dvToApply == burn.dv * (IF DotNonNegative(burn.dir, v) THEN 1 ELSE -1)
       IN Outcome([c EXCEPT !.lastBurnTime = in.missionTime], q, Tail(q),
                  <<Fired(dvToApply, burn.thruster, Undefined, burn, "queue")>>, warned)
  ELSE Outcome(c, q, q, <<>>, warned)

-----------------------------------------------------------------------------
(* update of part_002 (the "fixed" rewrite) *)

\* x / d rounded to the nearest integer, halves away from zero (toFixed)
RoundDiv(x, d) ==
  IF x >= 0 THEN (2 * x + d) \div (2 * d) ELSE -((2 * (-x) + d) \div (2 * d))

\* the interval of part_002:151 and part_001:1464
MinBurnInterval == 120

\* part_002:64-77
DragFixed(q, in, nearPerigee) ==
  LET dv == dragDvPerOrbit("fixed", in.orbit, in.nu)
  IN IF dragAccelSignificant("fixed", in.orbit, in.nu) /\ nearPerigee /\ dv > 1000
     THEN queueBurnFixed(q, dv, progradeUnit(in.theta),
                         Reason("Drag reboost", <<ToFixed2(dv)>>),
                         IF in.orbit.alt[in.nu] < 10000 THEN "chemical" ELSE "electric")
     ELSE q

\* part_002:82-120: eccentricity first, semi-major axis second
CircularFixed(c, q, in, nearPerigee, nearApogee) ==
  LET ecc == in.orbit.ecc
      cons == in.constraints
      eccThreshold == OrElse(cons.eccentricity.warning, 10)
      eccViolation == OrElse(cons.eccentricity.violation, 50)
      burnSize == Min(ecc * 2000, 120000)
      q1 == IF ecc * 10 > eccThreshold * 8
            THEN IF nearApogee
                 THEN queueBurnFixed(q, burnSize, retrogradeUnit(in.theta),
                                     Reason("Ecc fix: retro at apogee", <<ecc>>), "electric")
                 ELSE IF nearPerigee
                      THEN queueBurnFixed(q, burnSize, progradeUnit(in.theta),
                                          Reason("Ecc fix: pro at perigee", <<ecc>>), "electric")
                      ELSE q
            ELSE q
      r1 == IF ecc * 10 > eccThreshold * 8
            THEN IF (nearApogee \/ nearPerigee) /\ ecc > eccViolation
                 THEN TRUE ELSE c.rescueMode
            ELSE FALSE
      smaErrorKm == in.orbit.sma - (EarthRadius + cons.targetAlt)
      altThreshold == OrElse(cons.altitude_km.warning, 50)
      altViolation == OrElse(cons.altitude_km.violation, 150)
      smaDue == /\ ecc * 10 < eccThreshold * 12
                /\ Abs(smaErrorKm) * 10 > altThreshold * 3
                /\ (nearPerigee \/ nearApogee)
      dv == Abs(smaErrorKm) * 500
      q2 == IF smaDue
            THEN queueBurnFixed(q1, dv,
                                IF smaErrorKm > 0 THEN progradeUnit(in.theta)
                                                  ELSE retrogradeUnit(in.theta),
                                Reason("SMA fix", <<smaErrorKm>>),
                                IF dv < 30000 THEN "electric" ELSE "chemical")
            ELSE q1
      r2 == IF smaDue /\ Abs(smaErrorKm) > altViolation THEN TRUE ELSE r1
  IN [q |-> q2, rescueMode |-> r2]

\* part_002:125-148: burns at perigee only
MolniyaFixed(c, q, in, nearPerigee) ==
  LET cons == in.constraints
      targetEcc == OrElse(cons.targetEccentricity, 7200)
      targetSMA == EarthRadius
                     + (OrElse(cons.targetAlt, 420000) + OrElse(cons.perigeeAlt, 10000)) \div 2
      eccError == in.orbit.ecc - targetEcc
      eccThreshold == OrElse(cons.eccentricity.warning, 500)
      eccDue == nearPerigee /\ Abs(eccError) * 10 > eccThreshold * 2
      q1 == IF eccDue
            THEN queueBurnFixed(q, Abs(eccError) * 250,
                                IF eccError > 0 THEN retrogradeUnit(in.theta)
                                                ELSE progradeUnit(in.theta),
                                Reason("HEO ecc fix", <<RoundDiv(eccError, 10)>>), "chemical")
            ELSE q
      smaErrorKm == in.orbit.sma - targetSMA
      q2 == IF nearPerigee /\ Abs(smaErrorKm) > 1000
            THEN queueBurnFixed(q1, Abs(smaErrorKm) * 80,
                                IF smaErrorKm > 0 THEN progradeUnit(in.theta)
                                                  ELSE retrogradeUnit(in.theta),
                                Reason("HEO SMA fix", <<RoundDiv(smaErrorKm, 10)>>), "chemical")
            ELSE q1
  IN [q |-> q2, rescueMode |-> IF eccDue THEN TRUE ELSE c.rescueMode]

\* updateFixed without the return of part_002:33 for a disabled controller
updateFixedUnguarded(c, q, in) ==
  LET trueAnomaly == trueAnomalyOf(in.theta, c.argumentOfPerigee)
      nearPerigee == nearPerigeeOf(trueAnomaly)
      nearApogee == nearApogeeOf(trueAnomaly)
      q1 == DragFixed(q, in, nearPerigee)
      r == IF ~isMolniya(in.constraints)
           THEN CircularFixed(c, q1, in, nearPerigee, nearApogee)
           ELSE MolniyaFixed(c, q1, in, nearPerigee)
  IN ExecuteSigned([c EXCEPT !.rescueMode = r.rescueMode], r.q, in,
                   MinBurnInterval, {})

\* part_002:32-167
updateFixed(c, q, in) ==
  IF ~c.enabled
  THEN Outcome(c, q, q, <<>>, {})
  ELSE LET trueAnomaly == trueAnomalyOf(in.theta, c.argumentOfPerigee)
           nearPerigee == nearPerigeeOf(trueAnomaly)
           nearApogee == nearApogeeOf(trueAnomaly)
           q1 == DragFixed(q, in, nearPerigee)
           r == IF ~isMolniya(in.constraints)
                THEN CircularFixed(c, q1, in, nearPerigee, nearApogee)
                ELSE MolniyaFixed(c, q1, in, nearPerigee)
       IN ExecuteSigned([c EXCEPT !.rescueMode = r.rescueMode], r.q, in,
                        MinBurnInterval, {})

-----------------------------------------------------------------------------
(* update of part_001:13-521 (the "perturb" rewrite) *)

\* NaN, and the undefined that arithmetic turns into NaN: a number no
\* computation of the model produces
NaN == -1000000

\* part_001:42-45.  state.argumentOfPerigee is read from the state object; a
\* state without the field makes the difference NaN.
trueAnomalyPerturb(theta, stateOmega) ==
  IF stateOmega = NaN
  THEN NaN
  ELSE LET ta0 == theta - stateOmega
           ta1 == IF ta0 < 0 THEN ta0 + TwoPi ELSE ta0
       IN IF ta1 > TwoPi THEN ta1 - TwoPi ELSE ta1

\* part_001:57-58; every comparison with NaN is false
nearPerigeePerturb(ta) ==
  ta # NaN /\ (ta < WindowTolPerturb \/ ta > TwoPi - WindowTolPerturb)

nearApogeePerturb(ta) == ta # NaN /\ Abs(ta - Pi) < WindowTolPerturb

\* (trueAnomaly * 180 / Math.PI).toFixed(1), in 0.1 deg
NuDegrees(ta) == IF ta = NaN THEN 0 ELSE RoundDiv(ta * 1800, Pi)

\* Math.random(), in hundredths
RandomSet == {0, 99}

\* seconds in the 365.25 days of part_001:429, divided by 100
YearSeconds100 == 315576

\* part_001:339-394
calculateJ2Perturbation(o) ==
  [needsCorrection |-> o.j2needs, deltaV |-> o.j2dv,
   direction |-> IF o.j2deg > 0 THEN MinusX ELSE PlusX,
   omegaDriftDeg |-> o.j2deg]

\* part_001:400-448; rnd is the value Math.random() returned
calculateThirdBodyPerturbation(o, nu, rnd) ==
  LET altitudeKm == o.alt[nu]
      geo == altitudeKm > 300000 /\ altitudeKm < 400000
      dvPerYear == IF geo THEN 4500 + rnd * 10
                   ELSE IF o.ecc > 5000 THEN 1000 + rnd * 10
                   ELSE 200 + rnd * 3
      dvPerOrbit == (dvPerYear * o.period) \div YearSeconds100
      threshold == IF altitudeKm > 300000 THEN 5000 ELSE 2000
  IN IF altitudeKm < 150000 \/ ~(dvPerOrbit > threshold)
     THEN [needsCorrection |-> FALSE, deltaV |-> 0, direction |-> PlusX, reason |-> <<0>>]
     ELSE [needsCorrection |-> TRUE, deltaV |-> Min(dvPerOrbit, 50000),
           direction |-> PlusX,
           reason |-> <<IF geo THEN 1 ELSE IF o.ecc > 5000 THEN 2 ELSE 3,
                        RoundDiv(dvPerYear, 120)>>]

\* part_001:457-494; mass in kg
calculateSRPPerturbation(o, nu, mass) ==
  LET altitudeKm == o.alt[nu]
      estimatedArea == 10000 + (altitudeKm * 16) \div 100
      areaToMass == (estimatedArea * 1000) \div mass
      srpAccel == (areaToMass * 5928) \div 1000
      dvPerOrbit == (((srpAccel * 3) \div 1000) * o.period) \div 1000000
      dvPerYear == ((srpAccel \div 10) * 9467) \div 1000000
  IN IF altitudeKm < 200000 \/ ~(dvPerYear > 500 /\ dvPerOrbit > 1000)
     THEN [needsCorrection |-> FALSE, deltaV |-> 0, direction |-> MinusX, reason |-> <<0>>]
     ELSE [needsCorrection |-> TRUE, deltaV |-> Min(dvPerOrbit, 20000),
           direction |-> MinusX,
           reason |-> <<RoundDiv(dvPerYear, 10), RoundDiv(areaToMass, 10000)>>]

\* part_001:66-139: drag, J2, third body, solar radiation pressure
PerturbationsPerturb(q, in, nearPerigee, nearApogee) ==
  LET o == in.orbit
      theta == in.theta
      dv == dragDvPerOrbit("perturb", o, in.nu)
      q1 == IF dragAccelSignificant("perturb", o, in.nu) /\ nearPerigee /\ dv > 800
            THEN queueBurnPerturb(q, dv, progradeUnit(theta),
                                  Reason("Drag makeup", <<ToFixed2(dv), RoundDiv(o.alt[in.nu], 10)>>),
                                  IF o.alt[in.nu] < 8000 THEN "chemical" ELSE "electric")
            ELSE q
      j2 == calculateJ2Perturbation(o)
      q2 == IF j2.needsCorrection /\ nearPerigee
            THEN queueBurnPerturb(q1, j2.deltaV, j2.direction,
                                  Reason("J2 correction", <<j2.omegaDriftDeg>>), "electric")
            ELSE q1
      tb == calculateThirdBodyPerturbation(o, in.nu, in.rnd)
      q3 == IF tb.needsCorrection /\ (nearPerigee \/ nearApogee)
            THEN queueBurnPerturb(q2, tb.deltaV, tb.direction,
                                  Reason("Third-body correction", tb.reason),
                                  IF o.alt[in.nu] > 200000 THEN "electric" ELSE "chemical")
            ELSE q2
      srp == calculateSRPPerturbation(o, in.nu, in.currentMass)
  IN IF srp.needsCorrection /\ nearPerigee
     THEN queueBurnPerturb(q3, srp.deltaV, srp.direction,
                           Reason("SRP correction", srp.reason), "electric")
     ELSE q3

\* part_001:144-207: eccentricity control, then semi-major-axis control
CircularPerturb(c, q, in, trueAnomaly, nearPerigee, nearApogee) ==
  LET ecc == in.orbit.ecc
      altitude == in.orbit.alt[in.nu]
      cons == in.constraints
      theta == in.theta
      eccThreshold == OrElse(cons.eccentricity.warning, 10)
      eccViolation == OrElse(cons.eccentricity.violation, 50)
      burnSize == Min(ecc * 1800, 150000)
      atApogee == nearApogee /\ altitude > cons.targetAlt + 100
      atPerigee == ~atApogee /\ nearPerigee /\ altitude < cons.targetAlt - 100
      q1 == IF ecc > eccThreshold /\ atApogee
            THEN queueBurnPerturb(q, burnSize, retrogradeUnit(theta),
                                  Reason("Circularize: retro at apogee", <<ecc, NuDegrees(trueAnomaly)>>),
                                  "electric")
            ELSE IF ecc > eccThreshold /\ atPerigee
                 THEN queueBurnPerturb(q, burnSize, progradeUnit(theta),
                                       Reason("Circularize: prograde at perigee", <<ecc, NuDegrees(trueAnomaly)>>),
                                       "electric")
                 ELSE q
      r1 == IF ecc > eccThreshold
            THEN IF (atApogee \/ atPerigee) /\ ecc > eccViolation THEN TRUE ELSE c.rescueMode
            ELSE FALSE
      smaErrorKm == in.orbit.sma - (EarthRadius + cons.targetAlt)
      altThreshold == OrElse(cons.altitude_km.warning, 50)
      altViolation == OrElse(cons.altitude_km.violation, 150)
      smaDue == Abs(smaErrorKm) > altThreshold /\ (nearPerigee \/ nearApogee)
      dv == Abs(smaErrorKm) * 530
      q2 == IF smaDue
            THEN queueBurnPerturb(q1, dv,
                                  IF smaErrorKm > 0 THEN retrogradeUnit(theta)
                                                    ELSE progradeUnit(theta),
                                  Reason("SMA adjust", <<IF smaErrorKm > 0 THEN -1 ELSE 1, Abs(smaErrorKm)>>),
                                  IF dv < 50000 THEN "electric" ELSE "chemical")
            ELSE q1
      r2 == IF smaDue /\ Abs(smaErrorKm) > altViolation THEN TRUE ELSE r1
  IN [q |-> q2, rescueMode |-> r2]

\* part_001:212-251
MolniyaPerturb(c, q, in, trueAnomaly, nearPerigee) ==
  LET cons == in.constraints
      theta == in.theta
      targetEcc == OrElse(cons.targetEccentricity, 7200)
      targetSMA == EarthRadius
                     + (OrElse(cons.targetAlt, 420000) + OrElse(cons.perigeeAlt, 10000)) \div 2
      eccError == in.orbit.ecc - targetEcc
      eccThreshold == OrElse(cons.eccentricity.warning, 500)
      eccDue == nearPerigee /\ Abs(eccError) > eccThreshold
      q1 == IF eccDue
            THEN queueBurnPerturb(q, Abs(eccError) * 220,
                                  IF eccError > 0 THEN retrogradeUnit(theta)
                                                  ELSE progradeUnit(theta),
                                  Reason("Molniya ecc", <<RoundDiv(eccError, 10), NuDegrees(trueAnomaly)>>),
                                  "chemical")
            ELSE q
      smaErrorKm == in.orbit.sma - targetSMA
      q2 == IF nearPerigee /\ Abs(smaErrorKm) > 1500
            THEN queueBurnPerturb(q1, Abs(smaErrorKm) * 75,
                                  IF smaErrorKm > 0 THEN retrogradeUnit(theta)
                                                    ELSE progradeUnit(theta),
                                  Reason("Molniya SMA", <<IF smaErrorKm > 0 THEN -1 ELSE 1,
                                                          RoundDiv(Abs(smaErrorKm), 10)>>),
                                  "chemical")
            ELSE q1
  IN [q |-> q2, rescueMode |-> IF eccDue THEN TRUE ELSE c.rescueMode]

\* part_001:255-258: 60 s, 120 s for Molniya, halved above 30000 km
adjustedInterval(constraints, altitude) ==
  LET minBurnInterval == IF isMolniya(constraints) THEN 120 ELSE 60
  IN IF altitude > 300000 THEN minBurnInterval \div 2 ELSE minBurnInterval

\* updatePerturb with the orbit control run ahead of the perturbation makeup
updatePerturbControlFirst(c, q, in) ==
  IF ~c.enabled
  THEN Outcome(c, q, q, <<>>, {})
  ELSE LET trueAnomaly == trueAnomalyPerturb(in.theta, in.stateOmega)
           nearPerigee == nearPerigeePerturb(trueAnomaly)
           nearApogee == nearApogeePerturb(trueAnomaly)
           r == IF ~isMolniya(in.constraints)
                THEN CircularPerturb(c, q, in, trueAnomaly, nearPerigee, nearApogee)
                ELSE MolniyaPerturb(c, q, in, trueAnomaly, nearPerigee)
           q1 == PerturbationsPerturb(r.q, in, nearPerigee, nearApogee)
       IN ExecuteSigned([c EXCEPT !.rescueMode = r.rescueMode], q1, in,
                        adjustedInterval(in.constraints, in.orbit.alt[in.nu]), {})

\* part_001:31-276
updatePerturb(c, q, in) ==
  IF ~c.enabled
  THEN Outcome(c, q, q, <<>>, {})
  ELSE LET trueAnomaly == trueAnomalyPerturb(in.theta, in.stateOmega)
           nearPerigee == nearPerigeePerturb(trueAnomaly)
           nearApogee == nearApogeePerturb(trueAnomaly)
           q1 == PerturbationsPerturb(q, in, nearPerigee, nearApogee)
           r == IF ~isMolniya(in.constraints)
                THEN CircularPerturb(c, q1, in, trueAnomaly, nearPerigee, nearApogee)
                ELSE MolniyaPerturb(c, q1, in, trueAnomaly, nearPerigee)
       IN ExecuteSigned([c EXCEPT !.rescueMode = r.rescueMode], r.q, in,
                        adjustedInterval(in.constraints, in.orbit.alt[in.nu]), {})

-----------------------------------------------------------------------------
(* update of part_001:868-1629 (the "adv" rewrite) *)

\* the state one update threads through its steps: controller, queue, the
\* warnings logged so far
Step(c, q, warned) == [c |-> c, q |-> q, warned |-> warned]

\* !last || missionTime - last > window: a timestamp that is undefined or 0
\* counts as unset
ThrottleOpen(last, missionTime, window) ==
  last = Undefined \/ last = 0 \/ missionTime - last > window

\* totalFuelRemaining < 0.5 kg
FuelCritical == 50

FuelWarningWindow == 60

CircularizeWarningWindow == 30

ManeuverWarningWindow == 30

DragWarningWindow == 60

totalFuelRemaining(p) == p.hydrazine + p.xenon + p.biprop

\* part_001:1308-1314
FuelCheckAdv(s, in) ==
  IF totalFuelRemaining(in.propellant) < FuelCritical
  THEN IF ThrottleOpen(s.c.lastFuelWarning, in.missionTime, FuelWarningWindow)
       THEN Step([s.c EXCEPT !.rescueMode = TRUE, !.lastFuelWarning = in.missionTime],
                 s.q, s.warned \cup {"critical-fuel"})
       ELSE Step([s.c EXCEPT !.rescueMode = TRUE], s.q, s.warned)
  ELSE s

\* estimateTotalFuelNeeded(...).totalDv, part_001:1189-1218, in 0.0001 m/s
estimateTotalFuelNeeded(in) ==
  LET currentAltKm == in.orbit.alt[in.nu]
      altDiff == Abs(in.constraints.targetAlt - currentAltKm)
      hohmannDv == in.orbit.hohmann[in.nu]
      eccDv == IF altDiff > 500 THEN 50000 ELSE 20000
      dragDv == IF currentAltKm < 10000 THEN (12000 - currentAltKm) * 80 ELSE 0
  IN (IF hohmannDv # 0 THEN hohmannDv ELSE altDiff * 500) + eccDv + dragDv

\* part_001:1317-1325: the budget warning is logged when it first holds
FuelBudgetAdv(s, in) ==
  LET budgetWarning == totalFuelRemaining(in.propellant) * 50000 < estimateTotalFuelNeeded(in)
      unset == s.c.lastBudgetWarning = Undefined \/ s.c.lastBudgetWarning = 0
  IN IF budgetWarning /\ unset
     THEN Step([s.c EXCEPT !.lastBudgetWarning = in.missionTime], s.q,
               s.warned \cup {"budget"})
     ELSE IF ~budgetWarning
          THEN Step([s.c EXCEPT !.lastBudgetWarning = Undefined], s.q, s.warned)
          ELSE s

\* the delta-v a tank can deliver, Isp g0 ln(m0 / (m0 - available)), for the
\* tanks of propellantOf (0.0001 m/s).  checkFuelAvailable (part_001:1113-1135)
\* tests m0 - m0 / exp(dv / (Isp g0)) <= available, which is dv <= this value.
tankDeltaV(available, Isp, m0) ==
  CASE <<available, Isp, m0>> = <<500, 1700, 265>>    -> 3175582
    [] <<available, Isp, m0>> = <<6000, 235, 265>>    -> 5916269
    [] <<available, Isp, m0>> = <<3000, 1700, 1950>>  -> 2584750
    [] <<available, Isp, m0>> = <<12000, 320, 1950>>  -> 1993131
    [] <<available, Isp, m0>> = <<3000, 235, 1548>>   -> 451005
    [] <<available, Isp, m0>> = <<1800, 1700, 1548>>  -> 1949882

checkFuelAvailable(propellantRemaining, propType, deltaV, Isp, currentMass) ==
  LET available == propellantRemaining[propType]
  IN available > 0 /\ Abs(deltaV) <= tankDeltaV(available, Isp, currentMass)

NoThruster == [type |-> "none", propType |-> "none", Isp |-> 0]

\* part_001:1137-1187: the thrusters that have propellant, stably sorted by
\* priority; the first one is selected
selectBestThruster(currentMass, propellantRemaining, deltaV, needsElectric) ==
  LET hall == [type |-> "hall_thruster", propType |-> "xenon", Isp |-> 1700]
      mono == [type |-> "chemical_monoprop", propType |-> "hydrazine", Isp |-> 235]
      biprop == [type |-> "biprop_MMHMHN", propType |-> "biprop", Isp |-> 320]
      selected ==
        IF needsElectric
        THEN IF propellantRemaining.xenon > 0 THEN hall
             ELSE IF propellantRemaining.hydrazine > 0 THEN mono
             ELSE IF propellantRemaining.biprop > 0 THEN biprop ELSE NoThruster
        ELSE IF propellantRemaining.hydrazine > 0 THEN mono
             ELSE IF propellantRemaining.xenon > 0 THEN hall
             ELSE IF propellantRemaining.biprop > 0 THEN biprop ELSE NoThruster
  IN IF selected = NoThruster
     THEN [thruster |-> NoThruster, canExecute |-> FALSE]
     ELSE [thruster |-> selected,
           canExecute |-> checkFuelAvailable(propellantRemaining, selected.propType,
                                             deltaV, selected.Isp, currentMass)]

\* this.minCorrectionInterval
MinCorrectionInterval == 30

\* the 5 minutes and the 0.1 m/s of part_001:1082 and 1095
SmoothingHorizon == 300

MinSmoothed == 1000

RECURSIVE SumLast(_, _)
SumLast(buf, n) ==
  IF n = 0 \/ buf = <<>> THEN 0
  ELSE buf[Len(buf)].dv + SumLast(SubSeq(buf, 1, Len(buf) - 1), n - 1)

\* part_001:1059-1110; now is performance.now() / 1000
smoothBurnCorrection(c, proposedDV, now) ==
  IF now - c.lastCorrectionTime < MinCorrectionInterval
  THEN [c |-> c, shouldBurn |-> FALSE, smoothedDV |-> 0]
  ELSE LET pushed == Append(c.burnSmoothingBuffer, [dv |-> Abs(proposedDV), timestamp |-> now])
           buf == SelectSeq(pushed, LAMBDA b : now - b.timestamp < SmoothingHorizon)
           smoothedDV == IF Len(buf) > 2
                         THEN (3 * Abs(proposedDV) + 2 * SumLast(buf, 3)) \div 9
                         ELSE Abs(proposedDV)
       IN IF smoothedDV < MinSmoothed
          THEN [c |-> [c EXCEPT !.burnSmoothingBuffer = buf],
                shouldBurn |-> FALSE, smoothedDV |-> 0]
          ELSE [c |-> [c EXCEPT !.burnSmoothingBuffer = buf, !.lastCorrectionTime = now],
                shouldBurn |-> TRUE, smoothedDV |-> smoothedDV]

\* a correction that passes through the smoothing filter before it is queued
SmoothedQueue(s, in, proposedDV, dir, reason, thruster) ==
  LET sm == smoothBurnCorrection(s.c, proposedDV, in.now)
  IN IF sm.shouldBurn
     THEN Step(sm.c, queueBurnAdv(s.q, sm.smoothedDV, dir, reason, thruster), s.warned)
     ELSE Step(sm.c, s.q, s.warned)

\* part_001:906-940.  The state stored at part_001:1299 is {pos, vel, time};
\* the x, y, vx and vy read here are undefined, so every drift is NaN and
\* neither comparison holds.
predictDriftIn60Seconds ==
  [smaDrift |-> NaN, eccDrift |-> NaN,
   willViolateAltitude |-> FALSE, willViolateEcc |-> FALSE]

\* part_001:942-970
applyDriftCorrections(s, in, nearPerigee, nearApogee) ==
  LET drift == predictDriftIn60Seconds
      q1 == IF drift.willViolateAltitude /\ nearPerigee
            THEN queueBurnAdv(s.q, Abs(drift.smaDrift) * 300,
                              IF drift.smaDrift > 0 THEN retrogradeUnit(in.theta)
                                                    ELSE progradeUnit(in.theta),
                              Reason("Drift correction", <<drift.smaDrift>>), "electric")
            ELSE s.q
      q2 == IF drift.willViolateEcc /\ nearApogee
            THEN queueBurnAdv(q1, Abs(drift.eccDrift) * 500,
                              IF drift.eccDrift > 0 THEN retrogradeUnit(in.theta)
                                                    ELSE progradeUnit(in.theta),
                              Reason("Ecc drift correction", <<drift.eccDrift>>), "electric")
            ELSE q1
  IN Step(s.c, q2, s.warned)

\* part_001:973-997
controlPlaneAndInclination(s, in, nearApogee) ==
  LET inclinationError == in.orbit.inclErr
      normalDV == Max(1000, inclinationError \div 2)
  IN IF inclinationError > 5000 /\ nearApogee
     THEN Step(s.c, queueBurnAdv(s.q, normalDV, radialUnit(in.theta),
                                 Reason("Normal burn: plane correction",
                                        <<RoundDiv(inclinationError, 100)>>),
                                 "electric"),
               s.warned)
     ELSE s

\* part_001:1000-1056, called with targetEcc 0.0001; the Hohmann plan is
\* the orbit's hohmann entry (0 when planTransfer returns null)
selectMinimumFuelManeuver(in) ==
  LET currentAlt == in.orbit.alt[in.nu]
      altDiff == Abs(in.constraints.targetAlt - currentAlt)
      eccDiff == Abs(in.orbit.ecc - 1)
      hohmannDV == in.orbit.hohmann[in.nu]
  IN IF altDiff < 150 /\ eccDiff < 100
     THEN [maneuverType |-> "direct", dv |-> altDiff * 500]
     ELSE IF altDiff > 500 /\ currentAlt < 100000 /\ hohmannDV # 0
          THEN [maneuverType |-> "hohmann", dv |-> hohmannDV]
          ELSE IF currentAlt > 100000 /\ altDiff > 1000
               THEN [maneuverType |-> "bielliptic",
                     dv |-> IF hohmannDV # 0 THEN (hohmannDV \div 100) * 85
                                             ELSE altDiff * 300]
               ELSE [maneuverType |-> "direct", dv |-> altDiff * 500]

\* this.rescueMode = true when the error exceeds the violation threshold
\* (part_001:1364-1366 and 1411-1413)
RescueIf(s, violated) ==
  IF violated THEN Step([s.c EXCEPT !.rescueMode = TRUE], s.q, s.warned) ELSE s

\* part_001:1334-1369
EccControlAdv(s, in, nearPerigee, nearApogee) ==
  LET ecc == in.orbit.ecc
      cons == in.constraints
      eccThreshold == OrElse(cons.eccentricity.warning, 10)
      eccViolation == OrElse(cons.eccentricity.violation, 50)
      burnSize == Min(ecc * 2000, 120000)
      thrusterChoice == selectBestThruster(in.currentMass, in.propellant, burnSize, FALSE)
      s1 == IF ~thrusterChoice.canExecute
            THEN IF ThrottleOpen(s.c.lastFuelWarningTime, in.missionTime,
                                 CircularizeWarningWindow)
                 THEN Step([s.c EXCEPT !.lastFuelWarningTime = in.missionTime,
                                       !.rescueMode = TRUE],
                           s.q, s.warned \cup {"circularize"})
                 ELSE Step([s.c EXCEPT !.rescueMode = TRUE], s.q, s.warned)
            ELSE IF nearApogee
                 THEN SmoothedQueue(s, in, burnSize, retrogradeUnit(in.theta),
                                    Reason("Ecc fix: retro at apogee", <<ecc>>),
                                    thrusterChoice.thruster.type)
                 ELSE IF nearPerigee
                      THEN SmoothedQueue(s, in, burnSize, progradeUnit(in.theta),
                                         Reason("Ecc fix: pro at perigee", <<ecc>>),
                                         thrusterChoice.thruster.type)
                      ELSE s
  IN IF ecc * 10 > eccThreshold * 8
     THEN RescueIf(s1, ecc > eccViolation)
     ELSE Step([s.c EXCEPT !.rescueMode = FALSE], s.q, s.warned)

\* part_001:1371-1415
SmaControlAdv(s, in, nearPerigee, nearApogee) ==
  LET ecc == in.orbit.ecc
      cons == in.constraints
      eccThreshold == OrElse(cons.eccentricity.warning, 10)
      smaErrorKm == in.orbit.sma - (EarthRadius + cons.targetAlt)
      altThreshold == OrElse(cons.altitude_km.warning, 50)
      altViolation == OrElse(cons.altitude_km.violation, 150)
      maneuver == selectMinimumFuelManeuver(in)
      thrusterChoice == selectBestThruster(in.currentMass, in.propellant, maneuver.dv, FALSE)
      s1 == IF ~thrusterChoice.canExecute
            THEN IF ThrottleOpen(s.c.lastManeuverWarningTime, in.missionTime,
                                 ManeuverWarningWindow)
                 THEN Step([s.c EXCEPT !.lastManeuverWarningTime = in.missionTime,
                                       !.rescueMode = TRUE],
                           s.q, s.warned \cup {"maneuver"})
                 ELSE Step([s.c EXCEPT !.rescueMode = TRUE], s.q, s.warned)
            ELSE IF maneuver.maneuverType = "hohmann" /\ nearPerigee
                 THEN SmoothedQueue(s, in, maneuver.dv, progradeUnit(in.theta),
                                    Reason("Hohmann", <<RoundDiv(maneuver.dv, 1000)>>),
                                    thrusterChoice.thruster.type)
                 ELSE IF nearPerigee \/ nearApogee
                      THEN SmoothedQueue(s, in, Abs(smaErrorKm) * 500,
                                         IF smaErrorKm > 0 THEN retrogradeUnit(in.theta)
                                                           ELSE progradeUnit(in.theta),
                                         Reason("SMA fix", <<smaErrorKm>>),
                                         thrusterChoice.thruster.type)
                      ELSE s
  IN IF ecc * 10 < eccThreshold * 12 /\ Abs(smaErrorKm) * 10 > altThreshold * 3
     THEN RescueIf(s1, Abs(smaErrorKm) > altViolation)
     ELSE s

\* the 5 degrees of part_001:1577, in tenths of a degree
OmegaLockDeg == 50

\* the 0.3 m/s of part_001:1578
OmegaLockDv == 3000

\* part_001:1557-1588
controlArgumentOfPerigee(s, in, nearApogee) ==
  LET target == IF s.c.targetArgumentOfPerigee = Undefined
                THEN s.c.argumentOfPerigee
                ELSE s.c.targetArgumentOfPerigee
      c1 == [s.c EXCEPT !.targetArgumentOfPerigee = target]
      omegaError == s.c.argumentOfPerigee - target
      omegaErrorDeg == JsRem(RoundDiv(omegaError * 1800, Pi), 3600)
  IN IF Abs(omegaErrorDeg) > OmegaLockDeg /\ nearApogee
     THEN Step(c1, queueBurnAdv(s.q, OmegaLockDv,
                                IF omegaErrorDeg > 0 THEN retrogradeUnit(in.theta)
                                                     ELSE progradeUnit(in.theta),
                                Reason("w-lock", <<omegaErrorDeg>>), "electric"),
               s.warned)
     ELSE Step(c1, s.q, s.warned)

\* part_001:1420-1450
DragAdv(s, in, nearPerigee) ==
  LET dv == dragDvPerOrbit("adv", in.orbit, in.nu)
      thrusterChoice == selectBestThruster(in.currentMass, in.propellant, dv,
                                           in.orbit.alt[in.nu] < 10000)
      sm == smoothBurnCorrection(s.c, dv, in.now)
  IN IF dragAccelSignificant("adv", in.orbit, in.nu) /\ nearPerigee /\ dv > 1000
     THEN IF thrusterChoice.canExecute
          THEN IF sm.shouldBurn
               THEN Step(sm.c, queueBurnAdv(s.q, sm.smoothedDV, progradeUnit(in.theta),
                                            Reason("Drag reboost", <<ToFixed2(sm.smoothedDV)>>),
                                            thrusterChoice.thruster.type),
                         s.warned)
               ELSE Step(sm.c, s.q, s.warned)
          ELSE IF ThrottleOpen(s.c.lastDragWarningTime, in.missionTime, DragWarningWindow)
               THEN Step([s.c EXCEPT !.lastDragWarningTime = in.missionTime], s.q,
                         s.warned \cup {"drag"})
               ELSE s
     ELSE s

\* the 0.08 of part_001:1623
ApogeeTrimEcc == 800

\* part_001:1590-1629
controlHEO(s, in, nearPerigee, nearApogee) ==
  LET cons == in.constraints
      targetEcc == OrElse(cons.targetEccentricity, 7200)
      targetSMA == EarthRadius
                     + (OrElse(cons.targetAlt, 420000) + OrElse(cons.perigeeAlt, 10000)) \div 2
      eccError == in.orbit.ecc - targetEcc
      eccThreshold == OrElse(cons.eccentricity.warning, 500)
      eccDue == Abs(eccError) * 10 > eccThreshold * 2
      q1 == IF eccDue
            THEN queueBurnAdv(s.q, Abs(eccError) * 250,
                              IF eccError > 0 THEN retrogradeUnit(in.theta)
                                              ELSE progradeUnit(in.theta),
                              Reason("HEO ecc fix", <<RoundDiv(eccError, 10)>>), "chemical")
            ELSE s.q
      smaErrorKm == in.orbit.sma - targetSMA
      q2 == IF Abs(smaErrorKm) > 1000
            THEN queueBurnAdv(q1, Abs(smaErrorKm) * 80,
                              IF smaErrorKm > 0 THEN progradeUnit(in.theta)
                                                ELSE retrogradeUnit(in.theta),
                              Reason("HEO SMA fix", <<RoundDiv(smaErrorKm, 10)>>), "chemical")
            ELSE q1
  IN IF nearPerigee
     THEN Step([s.c EXCEPT !.rescueMode = IF eccDue THEN TRUE ELSE @], q2, s.warned)
     ELSE IF nearApogee /\ Abs(eccError) > ApogeeTrimEcc
          THEN Step(s.c, queueBurnAdv(s.q, Abs(eccError) * 150,
                                      IF eccError > 0 THEN retrogradeUnit(in.theta)
                                                      ELSE progradeUnit(in.theta),
                                      Reason("HEO apogee ecc trim", <<>>), "chemical"),
                    s.warned)
          ELSE s

\* ExecuteAdv firing every queued request once the interval has passed
ExecuteAdvDrain(s, in) ==
  IF s.q # <<>> /\ in.missionTime - s.c.lastBurnTime > MinBurnInterval
  THEN Outcome([s.c EXCEPT !.lastBurnTime = in.missionTime], s.q, <<>>,
               [i \in 1..Len(s.q) |->
                  Fired(s.q[i].dv, s.q[i].thruster, s.q[i].dir, s.q[i], "queue")],
               s.warned)
  ELSE Outcome(s.c, s.q, s.q, <<>>, s.warned)

\* ExecuteAdv firing the request that was enqueued last
ExecuteAdvLast(s, in) ==
  IF s.q # <<>> /\ in.missionTime - s.c.lastBurnTime > MinBurnInterval
  THEN LET last == s.q[Len(s.q)]
       IN Outcome([s.c EXCEPT !.lastBurnTime = in.missionTime], s.q,
                  SubSeq(s.q, 1, Len(s.q) - 1),
                  <<Fired(last.dv, last.thruster, last.dir, last, "queue")>>,
                  s.warned)
  ELSE Outcome(s.c, s.q, s.q, <<>>, s.warned)

\* the execute step of part_001:1464-1471: the head of the queue is fired as
\* queued, with its direction
ExecuteAdv(s, in) ==
  IF s.q # <<>> /\ in.missionTime - s.c.lastBurnTime > MinBurnInterval
  THEN Outcome([s.c EXCEPT !.lastBurnTime = in.missionTime], s.q, Tail(s.q),
               <<Fired(Head(s.q).dv, Head(s.q).thruster, Head(s.q).dir, Head(s.q), "queue")>>,
               s.warned)
  ELSE Outcome(s.c, s.q, s.q, <<>>, s.warned)

\* part_001:1261-1474.  No mission is ever added to the sequencer, so
\* hasActivePlan() is false at 1456.
updateAdv(c, q, in) ==
  IF ~c.enabled
  THEN Outcome(c, q, q, <<>>, {})
  ELSE LET trueAnomaly == trueAnomalyOf(in.theta, c.argumentOfPerigee)
           nearPerigee == nearPerigeeOf(trueAnomaly)
           nearApogee == nearApogeeOf(trueAnomaly)
           s0 == FuelBudgetAdv(FuelCheckAdv(Step(c, q, {}), in), in)
           s1 == applyDriftCorrections(s0, in, nearPerigee, nearApogee)
           s2 == controlPlaneAndInclination(s1, in, nearApogee)
           s3 == EccControlAdv(s2, in, nearPerigee, nearApogee)
           s4 == SmaControlAdv(s3, in, nearPerigee, nearApogee)
           s5 == controlArgumentOfPerigee(s4, in, nearApogee)
           s6 == DragAdv(s5, in, nearPerigee)
           sh == controlHEO(s0, in, nearPerigee, nearApogee)
       IN ExecuteAdv(IF ~isMolniya(in.constraints) THEN s6 ELSE sh, in)

-----------------------------------------------------------------------------
(* update of part_000 (the "pid" rewrite): no queue, the callback is made
   from update itself *)

\* this.correctionInterval
CorrectionInterval == 1

\* the anti-windup limit of part_000:375 and 405: 100 km in 0.1 km, 100 m/s
AltIntegralLimit == 1000

VelIntegralLimit == 100

Sign(x) == IF x > 0 THEN 1 ELSE IF x < 0 THEN -1 ELSE 0

\* a callback made by the pid controller carries the delta-v only
FiredDirect(c, q, deltaV, src) ==
  Outcome(c, q, q, <<Fired(deltaV, Undefined, Undefined, Undefined, src)>>, {})

\* twice the urgency factor of part_000:386-393 and 417-424
Urgency2(error, thresholds) ==
  IF Abs(error) > thresholds.critical THEN 6
  ELSE IF Abs(error) > thresholds.violation THEN 4
  ELSE IF Abs(error) > thresholds.warning THEN 3
  ELSE 2

\* part_000:368-396; the correction is returned times 200000
calculateAltitudeCorrection(pid, currentAlt, targetAlt, thresholds) ==
  LET error == targetAlt - currentAlt
      integral == Max(-AltIntegralLimit, Min(AltIntegralLimit, pid.integral + error))
      derivative == error - pid.lastError
  IN [pid |-> [integral |-> integral, lastError |-> error],
      correction |-> (20 * error + integral + 100 * derivative) * Urgency2(error, thresholds)]

\* part_000:401-427; the correction is returned times 200000
calculateVelocityCorrection(pid, currentVel, targetVel, thresholds) ==
  LET error == targetVel - currentVel
      integral == Max(-VelIntegralLimit, Min(VelIntegralLimit, pid.integral + error))
      derivative == error - pid.lastError
  IN [pid |-> [integral |-> integral, lastError |-> error],
      correction |-> (100 * error + 5 * integral + 500 * derivative)
                       * Urgency2(error, thresholds)]

\* part_000:430-466
applyCorrections(c, q, altCorrection, velCorrection) ==
  LET velocityFirst == Abs(velCorrection) > Abs(altCorrection) * 2
      altitudeNext == ~velocityFirst /\ Abs(altCorrection) > 20000
      deltaV == IF velocityFirst
                THEN Sign(velCorrection) * Min(Abs(velCorrection), 50000)
                ELSE IF altitudeNext
                     THEN Sign(altCorrection) * Min(Abs(altCorrection) \div 2, 30000)
                     ELSE 0
  IN IF (velocityFirst \/ altitudeNext) /\ Abs(deltaV) > 5000
     THEN FiredDirect(c, q, deltaV, IF velocityFirst THEN "velocity" ELSE "altitude")
     ELSE Outcome(c, q, q, <<>>, {})

\* part_000:289-357
correctEccentricity(c, q, in) ==
  LET eccentricity == eccentricityPid(in.orbit)
      altitude == in.orbit.alt[in.nu]
      r == EarthRadius + altitude
      semiMajorAxis == semiMajorAxisPid(in.orbit)
      aboveTarget == altitude > in.constraints.targetAlt
      belowTarget == altitude < in.constraints.targetAlt
      nearApogee == r > semiMajorAxis
      nearPerigee == r < semiMajorAxis
      urgency == IF eccentricity > in.constraints.eccentricity.violation THEN 2 ELSE 1
      baseBurn == Min(eccentricity * 500, 30000) * urgency
      deltaV == IF nearApogee /\ aboveTarget THEN -baseBurn
                ELSE IF nearPerigee /\ belowTarget THEN baseBurn
                ELSE IF nearApogee THEN -(baseBurn \div 2)
                ELSE IF nearPerigee THEN baseBurn \div 2
                ELSE 0
  IN IF (nearApogee \/ nearPerigee) /\ Abs(deltaV) > 3000
     THEN FiredDirect(c, q, deltaV, "eccentricity")
     ELSE Outcome(c, q, q, <<>>, {})

\* part_000:167-275
updateHEO(c, q, in) ==
  LET cons == in.constraints
      altitude == in.orbit.alt[in.nu]
      eccentricity == eccentricityPid(in.orbit)
      apogeeAlt == cons.targetAlt
      perigeeAlt == cons.perigeeAlt
      targetEcc == cons.targetEccentricity
      criticalMargin == OrElse(cons.altitude_km.critical, 80000)
      tooLow == altitude < perigeeAlt - criticalMargin
      tooHigh == altitude > apogeeAlt + criticalMargin
      rescueDv == IF tooLow
                  THEN Min(50000, Max(5000, (perigeeAlt - altitude) * 50))
                  ELSE -Min(50000, Max(5000, (altitude - apogeeAlt) * 50))
      eccError == Abs(eccentricity - targetEcc)
      eccThreshold == OrElse(cons.eccentricity.warning, 500)
      midPoint == EarthRadius + (apogeeAlt + perigeeAlt) \div 2
      currentR == EarthRadius + altitude
      nearApogee == currentR > midPoint
      nearPerigee == currentR < midPoint
      deltaV == IF eccentricity < targetEcc - eccThreshold
                THEN IF nearApogee THEN -15000 ELSE IF nearPerigee THEN 15000 ELSE 0
                ELSE IF eccentricity > targetEcc + eccThreshold
                     THEN IF nearApogee THEN 15000 ELSE IF nearPerigee THEN -15000 ELSE 0
                     ELSE 0
      rescued == [c EXCEPT !.rescueMode = TRUE]
  IN IF perigeeAlt = 0 \/ apogeeAlt = 0 \/ targetEcc = 0
     THEN Outcome(c, q, q, <<>>, {})
     ELSE IF eccentricity < 0 \/ eccentricity >= 10000
          THEN FiredDirect(rescued, q, 20000, "emergency")
          ELSE IF (tooLow \/ tooHigh) /\ Abs(rescueDv) > 3000
               THEN FiredDirect(rescued, q, rescueDv, "altitude")
               ELSE IF eccError > eccThreshold /\ Abs(deltaV) > 3000
                    THEN FiredDirect(rescued, q, deltaV, "eccentricity")
                    ELSE Outcome([c EXCEPT !.rescueMode = FALSE], q, q, <<>>, {})

\* part_000:66-157
updatePid(c, q, in) ==
  IF ~c.enabled \/ in.missionTime - c.lastCorrectionTime < CorrectionInterval
  THEN Outcome(c, q, q, <<>>, {})
  ELSE LET cons == in.constraints
           c0 == [c EXCEPT !.lastCorrectionTime = in.missionTime]
           altitude == in.orbit.alt[in.nu]
           vMag == in.orbit.vel[in.nu]
           eccentricity == eccentricityPid(in.orbit)
           eccWarning == cons.eccentricity.warning
           eccViolation == cons.eccentricity.violation
           isOffTrack == \/ Abs(altitude - cons.targetAlt) > cons.altitude_km.violation
                         \/ Abs(vMag - cons.targetVelocity) > cons.velocity_ms.violation
           c1 == [c0 EXCEPT !.rescueMode =
                              IF (eccentricity > eccWarning /\ eccentricity > eccViolation)
                                 \/ isOffTrack
                              THEN TRUE ELSE @]
           alt == calculateAltitudeCorrection(c1.altitudePID, altitude, cons.targetAlt,
                                              cons.altitude_km)
           vel == calculateVelocityCorrection(c1.velocityPID, vMag, cons.targetVelocity,
                                              cons.velocity_ms)
           c2 == [c1 EXCEPT !.altitudePID = alt.pid, !.velocityPID = vel.pid]
       IN IF isMolniya(cons)
          THEN updateHEO(c0, q, in)
          ELSE IF cons.altitude_km = NoThresholds
          THEN Threw([c0 EXCEPT !.rescueMode =
                                  IF eccentricity > eccWarning /\ eccentricity > eccViolation
                                  THEN TRUE ELSE @], q)
          ELSE IF eccentricity > eccWarning
               THEN correctEccentricity(c1, q, in)
               ELSE applyCorrections(c2, q, alt.correction, vel.correction)

\* update of the controller the driver loaded
update(v, c, q, in) ==
  CASE v = "fixed"   -> updateFixed(c, q, in)
    [] v = "perturb" -> updatePerturb(c, q, in)
    [] v = "adv"     -> updateAdv(c, q, in)
    [] v = "pid"     -> updatePid(c, q, in)

-----------------------------------------------------------------------------
(* Spec: the controller driven the way the driver's runAutopilot drives it *)
(* (main.js:619-668): update is called with the satellite state, the       *)
(* preset's constraints, the current mass and the mission clock.           *)

MaxTicks == 2

\* mission seconds that pass between two calls of update
DtSet == {0, 31, 121}

\* seconds of performance.now() that pass between two calls of update
WallSet == {1, 31}

\* angles the perigee can lie at: 0 and 270 degrees
OmegaSet == {0, (3 * Pi) \div 2}

WarnKinds == {"critical-fuel", "budget", "circularize", "maneuver", "drag"}

NoUpdate ==
  [op |-> "none", nu |-> 0, orbit |-> "L1", missionTime |-> 0, fired |-> <<>>,
   added |-> <<>>, warned |-> {}, prevFireT |-> Undefined,
   prevEmit |-> [k \in WarnKinds |-> Undefined],
   accepted |-> FALSE, prevAccT |-> Undefined, threw |-> FALSE,
   prevUpdT |-> Undefined, firedSense |-> "none"]

\* nothing has been fired, logged or accepted yet
NoHistory ==
  [fireT |-> Undefined, emit |-> [k \in WarnKinds |-> Undefined], accT |-> Undefined,
   emergencies |-> 0, updT |-> Undefined, senses |-> <<>>]

\* no direct queueBurn call was made
NoCall == [op |-> "none"]

\* the constraints object handed to update: the preset's (main.js:322), or
\* the HEO preset's without its perigeeAlt field (0: the field is absent)
constraintsPassed ==
  IF env.perigeeAbsent
  THEN [orbitConstraints(env.alt) EXCEPT !.perigeeAlt = 0]
  ELSE orbitConstraints(env.alt)

\* the arguments of one update call
UpdateInput(nu, missionTime, now, rnd) ==
  [theta |-> AngleFromXAxis(nu, env.omega), nu |-> nu, orbit |-> Orbit(env.orbit),
   constraints |-> constraintsPassed, missionTime |-> missionTime,
   rnd |-> rnd, currentMass |-> getCurrentMass(env.alt),
   stateOmega |-> IF env.hasOmega THEN env.omega ELSE NaN,
   propellant |-> env.propellant, now |-> now]

\* new OrbitalAutopilot() at main.js:43, a preset and an orbit loaded
Init ==
  /\ variant \in AllVariants
  /\ burnQueue = <<>>
  /\ qcalls = 0
  /\ qlog = [last |-> NoCall, prev |-> NoCall]
  /\ ctl = NewAutopilot
  /\ \E alt \in ConstraintAlts, orbit \in OrbitIds, omega \in OmegaSet,
        hasOmega \in BOOLEAN, full \in BOOLEAN, perigeeAbsent \in BOOLEAN :
       /\ orbit \in OrbitsOf(alt)
       /\ perigeeAbsent => alt = 42000
       /\ variant = "perturb" \/ (omega = 0 /\ ~hasOmega)
       /\ hasOmega \/ omega = 0
       /\ variant = "adv" \/ full
       /\ env = [alt |-> alt, orbit |-> orbit, omega |-> omega, hasOmega |-> hasOmega,
                 propellant |-> IF full THEN propellantOf(alt) ELSE NoPropellant,
                 perigeeAbsent |-> perigeeAbsent,
                 missionElapsedSeconds |-> 0, now |-> 0, ticks |-> 0]
  /\ obs = NoUpdate
  /\ hist = NoHistory

\* the sense a burn is enqueued with at position angle theta
SenseAt(b, theta) ==
  IF b.dir = progradeUnit(theta) THEN "prograde"
  ELSE IF b.dir = retrogradeUnit(theta) THEN "retrograde"
  ELSE "radial"

\* the senses of the pending burns, oldest first, once update at true anomaly
\* nu has brought the queue to enq
SensesQueued(nu, enq) ==
  LET added == Added(burnQueue, enq)
  IN hist.senses \o [i \in 1..Len(added) |-> SenseAt(added[i], AngleFromXAxis(nu, env.omega))]

\* one frame of the driver on which runAutopilot runs: the clock has advanced
\* by dt and update is called once
Tick(nu, dt, wall, rnd) ==
  /\ env.ticks < MaxTicks
  /\ variant = "perturb" \/ rnd = 0
  /\ variant = "adv" \/ wall = 1
  /\ LET missionTime == env.missionElapsedSeconds + dt
         now == env.now + wall
     IN \E out \in {update(variant, ctl, burnQueue, UpdateInput(nu, missionTime, now, rnd))} :
        /\ ctl' = out.ctl
        /\ burnQueue' = out.q
        /\ env' = [env EXCEPT !.missionElapsedSeconds = missionTime, !.now = now,
                              !.ticks = @ + 1]
        /\ obs' = [op |-> "update", nu |-> nu, orbit |-> env.orbit,
                   missionTime |-> missionTime, fired |-> out.fired,
                   added |-> Added(burnQueue, out.enq), warned |-> out.warned,
                   prevFireT |-> hist.fireT, prevEmit |-> hist.emit,
                   accepted |-> out.ctl.lastCorrectionTime # ctl.lastCorrectionTime,
                   prevAccT |-> hist.accT, threw |-> out.threw,
                   prevUpdT |-> hist.updT,
                   firedSense |-> IF \E i \in 1..Len(out.fired) : out.fired[i].src = "queue"
                                  THEN Head(SensesQueued(nu, out.enq)) ELSE "none"]
        /\ hist' = [fireT |-> IF \E i \in 1..Len(out.fired) : out.fired[i].src = "queue"
                               THEN missionTime ELSE hist.fireT,
                    emit |-> [k \in WarnKinds |->
                                IF k \in out.warned THEN missionTime ELSE hist.emit[k]],
                    accT |-> IF out.ctl.lastCorrectionTime # ctl.lastCorrectionTime
                             THEN missionTime ELSE hist.accT,
                    emergencies |->
                      IF \E i \in 1..Len(out.fired) : out.fired[i].src = "emergency"
                      THEN hist.emergencies + 1 ELSE hist.emergencies,
                    updT |-> IF ctl.enabled THEN missionTime ELSE hist.updT,
                    senses |-> IF \E i \in 1..Len(out.fired) : out.fired[i].src = "queue"
                               THEN Tail(SensesQueued(nu, out.enq))
                               ELSE SensesQueued(nu, out.enq)]
  /\ UNCHANGED <<variant, qcalls, qlog>>

\* part_002:17-24, part_001:22-29, part_001:897-904, part_000:43-51
setEnabled(v, c, enabled) ==
  IF v = "pid" /\ enabled
  THEN [c EXCEPT !.enabled = enabled, !.altitudePID = NewPID, !.velocityPID = NewPID]
  ELSE [c EXCEPT !.enabled = enabled]

\* the autopilot checkbox of main.js:589
SetEnabled(enabled) ==
  /\ ctl' = setEnabled(variant, ctl, enabled)
  /\ obs' = [NoUpdate EXCEPT !.op = "setEnabled"]
  /\ UNCHANGED <<variant, burnQueue, qcalls, qlog, env, hist>>

\* part_002:27-30
setArgumentOfPerigee(c, radians) == [c EXCEPT !.argumentOfPerigee = JsRem(radians, TwoPi)]

\* the angles a caller may pass for a perigee at 0 or 270 degrees
RadiansSet == {0, (3 * Pi) \div 2, -(Pi \div 2)}

\* a new orbit is initialised with its perigee at the given angle
SetArgumentOfPerigee(radians) ==
  /\ variant = "fixed"
  /\ env.ticks = 0
  /\ ctl' = setArgumentOfPerigee(ctl, radians)
  /\ env' = [env EXCEPT !.omega = radians % TwoPi]
  /\ obs' = [NoUpdate EXCEPT !.op = "setArgumentOfPerigee"]
  /\ UNCHANGED <<variant, burnQueue, qcalls, qlog, hist>>

\* the orbit setOrbit(altKm) initialises: the HEO preset's ellipse, or the
\* circular orbit at the altitude (main.js:338-360)
presetOrbit(altKm) ==
  IF altKm = 42000 THEN "H1" ELSE IF altKm = 20200 THEN "M1" ELSE "L1"

\* the angle of the perigee of that orbit: the HEO preset starts at apogee on
\* the +x axis, so its perigee lies on the -x axis
presetOmega(altKm) == IF altKm = 42000 THEN Pi ELSE 0

\* setOrbit of main.js:316-370, called by an orbit button (448) or a mode
\* change (510): constraints, propellant and state are loaded anew and the
\* mission clock restarts at 0; the autopilot object is not touched
SetOrbit(altKm) ==
  /\ env.ticks < MaxTicks
  /\ env' = [env EXCEPT !.alt = altKm, !.orbit = presetOrbit(altKm),
                        !.omega = presetOmega(altKm),
                        !.propellant = propellantOf(altKm),
                        !.perigeeAbsent = FALSE,
                        !.missionElapsedSeconds = 0]
  /\ obs' = [NoUpdate EXCEPT !.op = "setOrbit"]
  /\ UNCHANGED <<variant, burnQueue, ctl, qcalls, qlog, hist>>

Next ==
  \/ \E nu \in NuSet, dt \in DtSet, wall \in WallSet, rnd \in RandomSet :
       Tick(nu, dt, wall, rnd)
  \/ \E enabled \in BOOLEAN : SetEnabled(enabled)
  \/ \E radians \in RadiansSet : SetArgumentOfPerigee(radians)
  \/ \E altKm \in ConstraintAlts : SetOrbit(altKm)

Spec == Init /\ [][Next]_vars

-----------------------------------------------------------------------------
(* SpecQueue: the queue driven through its public method.  queueBurn is     *)
(* called with arguments drawn from small sets, and the head of the queue  *)
(* is removed the way update removes it (burnQueue.shift()).               *)

MaxCalls == 2

\* 0.2, 0.205, 1.0, 1.009, 2.1, 2.5, 4.0 and 5.0 m/s
QDvSet == {2000, 2050, 10000, 10090, 21000, 25000, 40000, 50000}

\* prograde and retrograde at position angle 0
QDirSet == {Pi \div 2, (3 * Pi) \div 2}

QReasonSet == {Reason("Ecc fix", <<40>>), Reason("SMA fix", <<100>>)}

InitQueue ==
  /\ variant \in Variants
  /\ burnQueue = <<>>
  /\ qcalls = 0
  /\ qlog = [last |-> NoCall, prev |-> NoCall]
  /\ ctl = NewAutopilot
  /\ env = [alt |-> 400, orbit |-> "L1", omega |-> 0, hasOmega |-> FALSE,
            propellant |-> NoPropellant, perigeeAbsent |-> FALSE,
            missionElapsedSeconds |-> 0, now |-> 0, ticks |-> 0]
  /\ obs = NoUpdate
  /\ hist = NoHistory

\* a caller invokes queueBurn(dv, dir, reason, "electric")
QueueBurnCall(dv, dir, reason) ==
  /\ qcalls < MaxCalls
  /\ burnQueue' = queueBurn(variant, burnQueue, dv, dir, reason, "electric")
  /\ qcalls' = qcalls + 1
  /\ qlog' = [last |-> [op |-> "queue", dv |-> dv, dir |-> dir, reason |-> reason,
                        pre |-> burnQueue, added |-> Added(burnQueue, burnQueue')],
              prev |-> qlog.last]
  /\ UNCHANGED <<variant, ctl, env, obs, hist>>

\* const burn = this.burnQueue.shift()  (part_002:152, part_001:261, part_001:1465)
ShiftBurn ==
  /\ burnQueue # <<>>
  /\ burnQueue' = Tail(burnQueue)
  /\ qlog' = [last |-> [op |-> "shift"], prev |-> qlog.last]
  /\ UNCHANGED <<variant, qcalls, ctl, env, obs, hist>>

NextQueue ==
  \/ \E dv \in QDvSet, dir \in QDirSet, reason \in QReasonSet : QueueBurnCall(dv, dir, reason)
  \/ ShiftBurn

SpecQueue == InitQueue /\ [][NextQueue]_vars

-----------------------------------------------------------------------------
(* Claims about queueBurn, checked under SpecQueue *)

DupTol(v) == IF v = "adv" THEN DupTolAdv ELSE DupTolSimple

\* the last two operations were queueBurn calls (so nothing was dequeued in
\* between) with the same reason, the same direction, delta-vs within the
\* de-duplication tolerance of each other, each no larger than one chunk
TwiceTheSame ==
  /\ qlog.last.op = "queue"
  /\ qlog.prev.op = "queue"
  /\ qlog.last.reason = qlog.prev.reason
  /\ qlog.last.dir = qlog.prev.dir
  /\ Abs(qlog.last.dv - qlog.prev.dv) < DupTol(variant)
  /\ qlog.last.dv <= MaxChunk
  /\ qlog.prev.dv <= MaxChunk

\* C1 as stated: when queueBurn is called twice with the same reason, the same
\* direction and the same delta-v within the de-duplication tolerance, with
\* nothing dequeued in between, the second call adds nothing to the queue.
C1_SecondCallAddsNothing ==
  TwiceTheSame => qlog.last.added = <<>>

\* C1 as amended: under the same conditions the second call adds nothing when
\* the first call enqueued its request or the two delta-vs are equal, and the
\* two calls together enqueue the request at most once.
C1_SecondCallAddsNothingOnceQueued ==
  TwiceTheSame =>
    /\ Len(qlog.prev.added) <= 1
    /\ (qlog.prev.added # <<>> \/ qlog.last.dv = qlog.prev.dv) => qlog.last.added = <<>>

\* C1 witness: a request of 1.0 m/s was enqueued and a second call with
\* 1.009 m/s, same reason and direction, followed it
C1_Witness ==
  /\ TwiceTheSame
  /\ qlog.prev.added # <<>>
  /\ qlog.last.dv # qlog.prev.dv
  /\ Len(burnQueue) = 1

\* the chunks a request of magnitude "remaining" is cut into, with the reason
\* each is queued under
RECURSIVE PlannedChunks(_, _)
PlannedChunks(remaining, reason) ==
  IF remaining > LoopEps
  THEN LET chunk == Min(remaining, MaxChunk)
       IN <<[dv |-> chunk, reason |-> ChunkReason(reason, remaining, chunk)]>>
            \o PlannedChunks(remaining - chunk, reason)
  ELSE <<>>

\* no chunk of the call duplicates a request that was queued before the call
NoChunkQueuedBefore(call) ==
  LET chunks == IF variant = "adv"
                THEN PlannedChunks(call.dv, call.reason)
                ELSE <<[dv |-> call.dv, reason |-> call.reason]>>
  IN \A i \in 1..Len(chunks), j \in 1..Len(call.pre) :
        ~ /\ call.pre[j].reason = chunks[i].reason
          /\ Abs(call.pre[j].dv - chunks[i].dv) < DupTol(variant)

\* C2: when queueBurn is called with a delta-v above the maximum chunk size
\* and no chunk duplicates a request queued before the call, the requests the
\* call adds sum to the original delta-v.
C2_ChunksSumToDeltaV ==
  (/\ qlog.last.op = "queue"
   /\ qlog.last.dv > MaxChunk
   /\ NoChunkQueuedBefore(qlog.last))
    => SumDv(qlog.last.added) = qlog.last.dv

-----------------------------------------------------------------------------
(* Claims about update, checked under Spec *)

\* the last operation was a call of update
Updated == obs.op = "update"

\* the callback the last update made from the burn queue, if any
FiredFromQueue == \E i \in 1..Len(obs.fired) : obs.fired[i].src = "queue"

\* the true anomaly nu lies within the burn-window tolerance of perigee
\* (0, wrapping at 2 pi) or of apogee (pi)
InBurnWindow(v, nu) ==
  LET tol == IF v = "perturb" THEN WindowTolPerturb ELSE WindowTol
  IN nu < tol \/ nu > TwoPi - tol \/ Abs(nu - Pi) < tol

\* the preset of the run is a circular regime
CircularRegime == ~isMolniya(orbitConstraints(env.alt))

\* the place of a request in the priority list: drag makeup, J2 or
\* argument-of-perigee lock, third body, solar radiation pressure,
\* eccentricity, semi-major axis; 0 for a request of no listed kind
Rank(reason) ==
  CASE reason.k \in {"Drag reboost", "Drag makeup"} -> 1
    [] reason.k \in {"J2 correction", "w-lock"} -> 2
    [] reason.k = "Third-body correction" -> 3
    [] reason.k = "SRP correction" -> 4
    [] reason.k \in {"Ecc fix: retro at apogee", "Ecc fix: pro at perigee",
                     "Circularize: retro at apogee",
                     "Circularize: prograde at perigee"} -> 5
    [] reason.k \in {"SMA fix", "SMA adjust", "Hohmann"} -> 6
    [] OTHER -> 0

\* C3: one call of update invokes the fireThruster callback at most once,
\* whatever the length of the queue and however long ago the last burn was.
C3_AtMostOneCallback ==
  Updated => Len(obs.fired) <= 1

\* C3 witness: an update made its callback more than two intervals after
\* construction, no burn having been fired before, and left requests queued
C3_Witness ==
  /\ Updated
  /\ Len(obs.fired) = 1
  /\ burnQueue # <<>>
  /\ obs.prevFireT = Undefined
  /\ obs.missionTime > 2 * MinBurnInterval

\* the minimum inter-burn interval the claim names: 120 s; for the
\* perturbation-model controller 60 s in a circular regime and 120 s for HEO,
\* halved above 30000 km
IntervalInForce ==
  LET altitude == Orbit(obs.orbit).alt[obs.nu]
      base == IF variant = "perturb" /\ CircularRegime THEN 60 ELSE 120
  IN IF variant = "perturb" /\ altitude > 300000 THEN base \div 2 ELSE base

\* C4: between two consecutive callbacks made from the burn queue the mission
\* time advances by more than the minimum inter-burn interval in force.
C4_QueueCallbacksSpaced ==
  (Updated /\ FiredFromQueue /\ obs.prevFireT # Undefined)
    => obs.missionTime - obs.prevFireT > IntervalInForce

\* C4 witness: a second callback was made from the queue
C4_Witness ==
  /\ Updated
  /\ FiredFromQueue
  /\ obs.prevFireT # Undefined

\* C5: every callback update makes happens on a tick whose true anomaly is
\* inside a burn window.
C5_CallbacksOnlyInWindow ==
  (Updated /\ obs.fired # <<>>) => InBurnWindow(variant, obs.nu)

\* C6: every request update adds to the queue is added on a tick whose true
\* anomaly is inside a burn window; on every other tick update adds nothing.
C6_RequestsOnlyInWindow ==
  (Updated /\ obs.added # <<>>) => InBurnWindow(variant, obs.nu)

EccAboveViolation ==
  Orbit(obs.orbit).ecc > orbitConstraints(env.alt).eccentricity.violation

\* C8: on a circular-regime tick whose eccentricity is above the violation
\* threshold, update neither enqueues nor fires an altitude or
\* semi-major-axis correction.
C8_NoSmaCorrectionAboveViolation ==
  (Updated /\ CircularRegime /\ EccAboveViolation) =>
    /\ \A i \in 1..Len(obs.added) : Rank(obs.added[i].reason) # 6
    /\ \A i \in 1..Len(obs.fired) :
          /\ obs.fired[i].src \notin {"altitude", "velocity"}
          /\ obs.fired[i].src = "queue" => Rank(obs.fired[i].burn.reason) # 6

\* C9: on a tick where the inventory holds zero of every propellant kind,
\* update adds no request to the queue.
C9_NoRequestWithoutPropellant ==
  (Updated /\ totalFuelRemaining(env.propellant) = 0) => obs.added = <<>>

\* the warnings that are throttled by a window, and their windows
ThrottleWindow(k) ==
  CASE k = "circularize" -> 30
    [] k = "maneuver" -> 30
    [] k = "critical-fuel" -> 60
    [] k = "drag" -> 60

\* C10: while the inventory stays empty, between two consecutive emissions of
\* the same warning the mission time advances by more than the warning's
\* throttle window, whenever the first emission happened.
C10_WarningsThrottled ==
  (Updated /\ totalFuelRemaining(env.propellant) = 0) =>
    \A k \in obs.warned \cap {"circularize", "maneuver", "critical-fuel", "drag"} :
       obs.prevEmit[k] # Undefined
         => obs.missionTime - obs.prevEmit[k] > ThrottleWindow(k)

\* C11: when smoothBurnCorrection accepts two corrections (shouldBurn true),
\* the mission times at which they were proposed are at least the minimum
\* correction interval (30 s) apart.
C11_AcceptedCorrectionsSpaced ==
  (Updated /\ obs.accepted /\ obs.prevAccT # Undefined)
    => obs.missionTime - obs.prevAccT >= MinCorrectionInterval

-----------------------------------------------------------------------------
(* Further claims about queueBurn, checked under SpecQueue *)

\* the minimum significant magnitude of each rewrite
MinSignificant(v) ==
  CASE v = "fixed" -> MinBurnFixed
    [] v = "perturb" -> MinBurnPerturb
    [] v = "adv" -> MinBurnAdv

\* two unit vectors point the same way: the cosine of the angle between them
\* is above 0.999
SameDirection(a, b) ==
  LET d == (a - b) % TwoPi
  IN d < CosTol \/ d > TwoPi - CosTol

\* C12: a request above the minimum magnitude, no larger than one chunk, whose
\* direction differs from that of every queued request with the same reason
\* and a magnitude within tolerance, is enqueued.
C12_OtherDirectionEnqueued ==
  (/\ qlog.last.op = "queue"
   /\ qlog.last.dv > MinSignificant(variant)
   /\ qlog.last.dv <= MaxChunk
   /\ \A j \in 1..Len(qlog.last.pre) :
         (/\ qlog.last.pre[j].reason = qlog.last.reason
          /\ Abs(qlog.last.pre[j].dv - qlog.last.dv) < DupTol(variant))
           => ~SameDirection(qlog.last.pre[j].dir, qlog.last.dir))
    => qlog.last.added # <<>>

\* C13: every request in the burn queue has a magnitude above the minimum
\* significant threshold of its rewrite.
C13_QueuedAboveMinimum ==
  variant \in Variants =>
    \A i \in 1..Len(burnQueue) : Abs(burnQueue[i].dv) > MinSignificant(variant)

\* C14: every request in the burn queue has a magnitude no larger than the
\* maximum chunk size.
C14_QueuedWithinChunk ==
  \A i \in 1..Len(burnQueue) : Abs(burnQueue[i].dv) <= MaxChunk

-----------------------------------------------------------------------------
(* Claims about the rescue flag, checked under Spec *)

\* the semi-major-axis error of the orbit against the preset's target, as
\* update computes it in each regime (0.1 km)
SmaErrorKm ==
  LET cons == orbitConstraints(env.alt)
  IN IF CircularRegime
     THEN Orbit(obs.orbit).sma - (EarthRadius + cons.targetAlt)
     ELSE Orbit(obs.orbit).sma
            - (EarthRadius + (cons.targetAlt + cons.perigeeAlt) \div 2)

\* the semi-major-axis error is above the preset's violation threshold
SmaAboveViolation ==
  Abs(SmaErrorKm) > orbitConstraints(env.alt).altitude_km.violation

\* the propellant left is below the critical level
FuelBelowCritical == totalFuelRemaining(env.propellant) < FuelCritical

\* C15: after an enabled update on which the eccentricity or the
\* semi-major-axis error exceeds its violation threshold, or the fuel is below
\* the critical level, rescueMode is true.
C15_RescueOnViolation ==
  (/\ Updated
   /\ ctl.enabled
   /\ EccAboveViolation \/ SmaAboveViolation \/ FuelBelowCritical)
    => ctl.rescueMode

\* the eccentricity error of the orbit: against 0 in the circular regime,
\* against the preset's target eccentricity in the HEO regime
EccErrorOf ==
  IF CircularRegime
  THEN Orbit(obs.orbit).ecc
  ELSE Abs(Orbit(obs.orbit).ecc - orbitConstraints(env.alt).targetEccentricity)

\* eccentricity and semi-major-axis error are below their warning thresholds
\* and the fuel is not below the critical level
AllNominal ==
  /\ EccErrorOf < orbitConstraints(env.alt).eccentricity.warning
  /\ Abs(SmaErrorKm) < orbitConstraints(env.alt).altitude_km.warning
  /\ ~FuelBelowCritical

\* C16: after an enabled update on which eccentricity, semi-major-axis error
\* and fuel are all nominal, rescueMode is false.
C16_RescueClearedWhenNominal ==
  (Updated /\ ctl.enabled /\ AllNominal) => ~ctl.rescueMode

-----------------------------------------------------------------------------
(* SpecDriver: the driver's thruster callback and the pure functions of the *)
(* controller, called with arguments drawn from small sets.                 *)
(*                                                                          *)
(* The callback reads autopilot.rescueMode.  To compare a run in which the  *)
(* flag is set with a run in which it is clear, env.run holds the driver's  *)
(* propellant tanks and battery once for each value of the flag; both runs  *)
(* receive every call.  In this section propellant is counted in 0.0001 kg  *)
(* and electricThrusterPower in 0.0001 of a full battery.                   *)

\* the callback is invoked at most this many times
MaxFire == 14

\* delta-v values update passes to the callback: 5 and -5 m/s
FireDvSet == {50000, -50000}

\* mission seconds of sunlight between two calls of the callback
RechargeDtSet == {54000}

\* currentPreset.thrusters (main.js:70-73 and main.js:147-150)
presetThrusters(alt) ==
  IF alt = 400
  THEN <<[type |-> "chemical_monoprop", Isp |-> 235],
         [type |-> "hall_thruster", Isp |-> 1700]>>
  ELSE <<[type |-> "biprop_MMHMHN", Isp |-> 320],
         [type |-> "ion_thruster", Isp |-> 3000]>>

\* t.type.includes('hall') || t.type.includes('ion')
isElectric(thruster) == thruster.type \in {"hall_thruster", "ion_thruster"}

\* Array.prototype.findIndex, 1-based; 0 when no element matches
RECURSIVE findIndexFrom(_, _, _)
findIndexFrom(s, i, types) ==
  IF i > Len(s) THEN 0
  ELSE IF s[i].type \in types THEN i
  ELSE findIndexFrom(s, i + 1, types)

\* currentPreset.solarArrayPower (W) and currentPreset.batteryCapacityWh
solarArrayPower(alt) == IF alt = 400 THEN 500 ELSE 2000

batteryCapacityWh(alt) == IF alt = 400 THEN 100 ELSE 400

\* g0 of main.js:11, in 0.001 m/s^2
G0Milli == 9807

\* electricThrusterPower of a full battery (main.js:35)
FullPower == 10000

\* the driver's state at setOrbit (main.js:333-335)
NewDriver(alt) ==
  [propellantRemaining |-> [k \in {"hydrazine", "xenon", "biprop"} |->
                              propellantOf(alt)[k] * 100],
   electricThrusterPower |-> FullPower]

\* getCurrentMass() of main.js:383-388, in kg
driverMass(alt, p) == dryMass(alt) + (p.hydrazine + p.xenon + p.biprop) \div 10000

\* m0 - m0 / exp(|dv| / (Isp g0)) of main.js:452-456 and 1167-1170, by the
\* first two terms of the exponential series (the third is below 0.0001 kg)
propUsedRocket(m0, dv, Isp) ==
  LET first == (((m0 * Abs(dv)) \div Isp) * 1000) \div G0Milli
      second == ((first * (Abs(dv) \div 100)) \div (2 * Isp)) \div 981
  IN first - second

\* fireThruster of main.js:1098-1225: the driver's state after the call and
\* the delta-v added to state.vel (0 when the burn is refused)
fireThruster(d, alt, dv, thruster, propType) ==
  LET available == d.propellantRemaining[propType]
      m0 == driverMass(alt, d.propellantRemaining)
      rocket == propUsedRocket(m0, dv, thruster.Isp)
      powerNeeded == (Abs(dv) * 15) \div 1000
      propUsed == IF isElectric(thruster) THEN rocket \div 20 ELSE rocket
      refused == [d |-> d, applied |-> 0]
  IN IF isElectric(thruster) /\ d.electricThrusterPower < powerNeeded THEN refused
     ELSE IF available <= 0 THEN refused
     ELSE IF propUsed > available THEN refused
     ELSE [d |-> [propellantRemaining |->
                    [d.propellantRemaining EXCEPT ![propType] = @ - propUsed],
                  electricThrusterPower |->
                    IF isElectric(thruster)
                    THEN Max(0, d.electricThrusterPower - powerNeeded)
                    ELSE d.electricThrusterPower],
           applied |-> dv]

\* the callback runAutopilot hands to update (main.js:623-656)
autopilotFireThruster(rescueMode, d, alt, deltaV) ==
  LET thrusters == presetThrusters(alt)
      electricIdx == findIndexFrom(thrusters, 1, {"hall_thruster", "ion_thruster"})
      bipropIdx == findIndexFrom(thrusters, 1, {"biprop_MMHMHN"})
      useElectric == ~rescueMode /\ electricIdx # 0
  IN IF useElectric
     THEN fireThruster(d, alt, deltaV, thrusters[electricIdx], "xenon")
     ELSE IF d.propellantRemaining.hydrazine > 0
     THEN fireThruster(d, alt, deltaV, thrusters[1], "hydrazine")
     ELSE IF d.propellantRemaining.biprop > 0 /\ bipropIdx # 0
     THEN fireThruster(d, alt, deltaV, thrusters[bipropIdx], "biprop")
     ELSE fireThruster(d, alt, deltaV, thrusters[1], "hydrazine")

\* rechargePower of main.js:1259-1284 over dt seconds of sunlight
rechargePower(power, alt, dt) ==
  Min(FullPower,
      power + (solarArrayPower(alt) * dt * 10) \div (3600 * batteryCapacityWh(alt)))

\* setOrbit has loaded a preset; nothing is queued
InitDriver ==
  /\ variant \in AllVariants
  /\ burnQueue = <<>>
  /\ qcalls = 0
  /\ qlog = [last |-> NoCall, prev |-> NoCall]
  /\ ctl = NewAutopilot
  /\ \E alt \in PresetAlts :
       env = [alt |-> alt, run |-> [r \in BOOLEAN |-> NewDriver(alt)], fires |-> 0]
  /\ obs = NoUpdate
  /\ hist = NoHistory

\* update calls fireThrusterCallback(deltaV), in the run with rescueMode set
\* and in the run with rescueMode clear
FireCall(deltaV) ==
  /\ env.fires < MaxFire
  /\ \E out \in {[r \in BOOLEAN |-> autopilotFireThruster(r, env.run[r], env.alt, deltaV)]} :
       /\ env' = [env EXCEPT !.run = [r \in BOOLEAN |-> out[r].d], !.fires = @ + 1]
       /\ obs' = [op |-> "autopilotFireThruster", deltaV |-> deltaV,
                  applied |-> [r \in BOOLEAN |-> out[r].applied]]
  /\ UNCHANGED <<variant, burnQueue, ctl, hist, qcalls, qlog>>

\* the physics frames between two callbacks recharge the battery
Recharge(dt) ==
  /\ env' = [env EXCEPT !.run = [r \in BOOLEAN |->
               [env.run[r] EXCEPT !.electricThrusterPower =
                                    rechargePower(@, env.alt, dt)]]]
  /\ obs' = [op |-> "rechargePower"]
  /\ UNCHANGED <<variant, burnQueue, ctl, hist, qcalls, qlog>>

\* what a caller reads from the result of a perturbation model
Outputs(r) ==
  [needsCorrection |-> r.needsCorrection, deltaV |-> r.deltaV, direction |-> r.direction]

\* one evaluation of the four perturbation models of part_001:66-139 on the
\* same state; rnd is what Math.random() returns during the evaluation
perturbationModels(o, nu, mass, rnd) ==
  [drag |-> [significant |-> dragAccelSignificant("perturb", o, nu),
             dvPerOrbit |-> dragDvPerOrbit("perturb", o, nu)],
   j2 |-> Outputs(calculateJ2Perturbation(o)),
   thirdBody |-> Outputs(calculateThirdBodyPerturbation(o, nu, rnd)),
   srp |-> Outputs(calculateSRPPerturbation(o, nu, mass))]

\* the orbits the models are called on under each preset
PerturbationOrbits(alt) == IF alt = 400 THEN {"L1", "L3"} ELSE {"H4", "F1"}

\* the four models are called twice with identical arguments; Math.random()
\* returns rnd1 during the first evaluation and rnd2 during the second
PerturbationCalls(id, nu, rnd1, rnd2) ==
  /\ variant = "perturb"
  /\ id \in PerturbationOrbits(env.alt)
  /\ id = "F1" => nu = 100
  /\ obs' = [op |-> "perturbations", orbit |-> id, nu |-> nu,
             first |-> perturbationModels(Orbit(id), nu, getCurrentMass(env.alt), rnd1),
             second |-> perturbationModels(Orbit(id), nu, getCurrentMass(env.alt), rnd2)]
  /\ UNCHANGED <<variant, burnQueue, ctl, env, hist, qcalls, qlog>>

\* mu of part_002:194, in 1000 m^3/s^2 per 0.1 km
MuScaled == 398600442

\* States (pos, vel) at an apsis: r is Math.hypot(pos.x, pos.y) in 0.1 km and
\* v the speed in m/s.  sma and ecc hold what the elliptic branch computes
\* with Math.sqrt, -mu / (2 energy) and sqrt(max(0, 1 - p/a)); the branch is
\* not taken by the last two states, which are on escape trajectories.
ElementStates ==
  {[r |-> 67781, v |-> 7669, sma |-> 67788, ecc |-> 1],
   [r |-> 73781, v |-> 9682, sma |-> 278576, ecc |-> 7351],
   [r |-> 67781, v |-> 10846, sma |-> NaN, ecc |-> NaN],
   [r |-> 67781, v |-> 12000, sma |-> NaN, ecc |-> NaN]}

\* const energy = v2/2 - mu/r, in m^2/s^2
energy(state) ==
  (state.v * state.v) \div 2
    - ((MuScaled \div state.r) * 10000 + ((MuScaled % state.r) * 10000) \div state.r)

\* what a call of the element calculator hands back: always a number
Returned(x) == [kind |-> "value", value |-> x]

\* part_002:193-203, part_001:291-304, part_001:1514-1524
getEccentricity(state) ==
  IF energy(state) >= 0 THEN Returned(10000) ELSE Returned(state.ecc)

\* part_002:205-212, part_001:306-315, part_001:1526-1533
getSMA(state) ==
  IF energy(state) >= 0 THEN Returned(state.r) ELSE Returned(state.sma)

\* update reads the elements of the current state (part_002:52-53)
ElementCalls(state) ==
  /\ variant \in Variants
  /\ obs' = [op |-> "elements", state |-> state, energy |-> energy(state),
             ecc |-> getEccentricity(state), sma |-> getSMA(state)]
  /\ UNCHANGED <<variant, burnQueue, ctl, env, hist, qcalls, qlog>>

\* Math.sqrt rounded down, by bisection
RECURSIVE SqrtBetween(_, _, _)
SqrtBetween(n, lo, hi) ==
  IF hi - lo <= 1 THEN lo
  ELSE LET mid == (lo + hi) \div 2
       IN IF mid * mid <= n THEN SqrtBetween(n, mid, hi) ELSE SqrtBetween(n, lo, mid)

\* the largest root a 32-bit product allows
SqrtCap == 46340

Sqrt(n) == IF n <= 0 THEN 0 ELSE SqrtBetween(n, 0, SqrtCap + 1)

\* mu / r in m^2/s^2, for r in km
MuOver(r) == (MuScaled \div r) * 1000 + ((MuScaled % r) * 1000) \div r

\* a^3 / mu in s^2, for a in km
CubeOverMu(a) ==
  ((a * a) \div 398600) * a + ((((a * a) % 398600) \div 100) * a) \div 3986

\* planTransfer returned null
NoTransfer == [kind |-> "null"]

\* HohmannPlanner.planTransfer with the guard r1 > r2 in place of r1 >= r2
planTransferStrict(r1, r2) ==
  IF r1 > r2
  THEN NoTransfer
  ELSE LET a_transfer == (r1 + r2) \div 2
           v1 == Sqrt(MuOver(r1))
           v2 == Sqrt(MuOver(r2))
           v_t1 == Sqrt(2 * MuOver(r1) - MuOver(a_transfer))
           v_t2 == Sqrt(2 * MuOver(r2) - MuOver(a_transfer))
           circBurn == Abs(v_t1 - v1)
           apoBurn == Abs(v2 - v_t2)
       IN [kind |-> "transfer", totalDv |-> circBurn + apoBurn, circBurn |-> circBurn,
           apoBurn |-> apoBurn,
           transferTime |-> (Pi * Sqrt(CubeOverMu(a_transfer))) \div 1000,
           a_transfer |-> a_transfer]

\* HohmannPlanner.planTransfer (part_001:540-563), radii in km, speeds in m/s,
\* the transfer time in s
planTransfer(r1, r2) ==
  IF r1 >= r2
  THEN NoTransfer
  ELSE LET a_transfer == (r1 + r2) \div 2
           v1 == Sqrt(MuOver(r1))
           v2 == Sqrt(MuOver(r2))
           v_t1 == Sqrt(2 * MuOver(r1) - MuOver(a_transfer))
           v_t2 == Sqrt(2 * MuOver(r2) - MuOver(a_transfer))
           circBurn == Abs(v_t1 - v1)
           apoBurn == Abs(v2 - v_t2)
       IN [kind |-> "transfer", totalDv |-> circBurn + apoBurn, circBurn |-> circBurn,
           apoBurn |-> apoBurn,
           transferTime |-> (Pi * Sqrt(CubeOverMu(a_transfer))) \div 1000,
           a_transfer |-> a_transfer]

\* radii the planner is called with: earthRadius plus 150, 400, 500, 1200,
\* 20200 and 35786 km
RadiusSet == {6521, 6771, 6871, 7571, 26571, 42157}

\* the fuel-aware controller plans a transfer from r1 to r2 (part_001:1019,
\* 1197)
PlanTransferCall(r1, r2) ==
  /\ variant = "adv"
  /\ obs' = [op |-> "planTransfer", r1 |-> r1, r2 |-> r2, plan |-> planTransfer(r1, r2)]
  /\ UNCHANGED <<variant, burnQueue, ctl, env, hist, qcalls, qlog>>

NextDriver ==
  \/ \E deltaV \in FireDvSet : FireCall(deltaV)
  \/ \E state \in ElementStates : ElementCalls(state)
  \/ \E dt \in RechargeDtSet : Recharge(dt)
  \/ \E id \in OrbitIds, nu \in NuSet, rnd1 \in RandomSet, rnd2 \in RandomSet :
       PerturbationCalls(id, nu, rnd1, rnd2)
  \/ \E r1 \in RadiusSet, r2 \in RadiusSet : PlanTransferCall(r1, r2)

SpecDriver == InitDriver /\ [][NextDriver]_vars

-----------------------------------------------------------------------------
(* Claims about the driver and the pure functions, checked under SpecDriver *)

\* C17: the rescue flag is reported only: on every call of the thruster
\* callback, the run with rescueMode set and the run with rescueMode clear,
\* which received the same calls, apply the same delta-v to the satellite.
C17_RescueFlagReportedOnly ==
  obs.op = "autopilotFireThruster" => obs.applied[TRUE] = obs.applied[FALSE]

-----------------------------------------------------------------------------
(* Claims about setEnabled, checked under Spec *)

\* C18: after setEnabled(false) the control state has its initial values: the
\* integrals and last errors of both PID controllers are 0, the smoothing
\* buffer is empty and the last-correction time is 0.
C18_DisableResetsControlState ==
  (obs.op = "setEnabled" /\ ~ctl.enabled)
    => /\ ctl.altitudePID = NewPID
       /\ ctl.velocityPID = NewPID
       /\ ctl.burnSmoothingBuffer = <<>>
       /\ ctl.lastCorrectionTime = 0

\* C19: two evaluations of the four perturbation models with identical
\* arguments return the same results (needsCorrection, deltaV and direction
\* of J2, third body and solar radiation pressure, and the drag delta-v).
C19_PerturbationModelsDeterministic ==
  obs.op = "perturbations" => obs.first = obs.second

\* C20: for a state whose specific orbital energy is not negative, the
\* element calculator reports OutOfBoundsOrbit for the eccentricity and for
\* the semi-major axis instead of returning a value.
C20_EscapeReportsOutOfBounds ==
  (obs.op = "elements" /\ obs.energy >= 0)
    => obs.ecc.kind = "OutOfBoundsOrbit" /\ obs.sma.kind = "OutOfBoundsOrbit"

-----------------------------------------------------------------------------
(* Claims about states that are not bound orbits, checked under Spec *)

\* the satellite is on an escape trajectory (energy >= 0)
NotBoundOrbit == env.orbit \in EscapeOrbits

\* C21: after an enabled update on a state that is not a bound orbit, no
\* correction was enqueued, nothing but an emergency burn was fired, and at
\* most one emergency burn has been fired since the fault began.
C21_FaultNoGuidance ==
  (Updated /\ ctl.enabled /\ NotBoundOrbit)
    => /\ obs.added = <<>>
       /\ \A i \in 1..Len(obs.fired) : obs.fired[i].src = "emergency"
       /\ hist.emergencies <= 1

\* C22: an enabled update in the HEO regime whose constraints lack the
\* perigee altitude enqueues no request and makes no thruster callback.
C22_MissingFieldStandsBy ==
  (Updated /\ ctl.enabled /\ isMolniya(orbitConstraints(env.alt)) /\ env.perigeeAbsent)
    => obs.added = <<>> /\ obs.fired = <<>>

\* C23: update never ends with an exception, whatever preset's constraints
\* the driver passes.
C23_UpdateNeverThrows == Updated => ~obs.threw

-----------------------------------------------------------------------------
(* The HEO regime below the target eccentricity, checked under Spec          *)

\* the preset is the HEO one, complete, and the orbit's eccentricity is below
\* the target (H2: 0.60 against 0.72)
HeoBelowTarget ==
  /\ isMolniya(constraintsPassed)
  /\ env.orbit \notin EscapeOrbits
  /\ Orbit(env.orbit).ecc < constraintsPassed.targetEccentricity

\* a thrust along the velocity raises the eccentricity on the perigee side of
\* the orbit (cos nu > 0) and lowers it near apogee; a thrust against the
\* velocity does the opposite
LowersEccentricity(alongVelocity, nu) ==
  \/ nearApogeeOf(nu) /\ alongVelocity
  \/ (nu < Pi \div 2 \/ nu > TwoPi - Pi \div 2) /\ ~alongVelocity

\* a queued burn is tangential at the place it was queued
Tangential(b, theta) == b.dir \in {progradeUnit(theta), retrogradeUnit(theta)}

\* the sense of a queued burn at the place it was queued
QueuedAlongVelocity(b, theta) == (b.dir = progradeUnit(theta)) = (b.dv > 0)

\* C24: in the HEO regime with the eccentricity below target, no burn update
\* enqueues or fires lowers the eccentricity: a tangential burn is prograde on
\* the perigee side and retrograde near apogee
C24_HeoBurnsRaiseEccentricity ==
  (Updated /\ ctl.enabled /\ HeoBelowTarget)
    => LET theta == AngleFromXAxis(obs.nu, env.omega)
       IN /\ \A i \in 1..Len(obs.added) :
               Tangential(obs.added[i], theta)
                 => ~LowersEccentricity(QueuedAlongVelocity(obs.added[i], theta), obs.nu)
          /\ \A i \in 1..Len(obs.fired) :
               obs.fired[i].dir = Undefined
                 => ~LowersEccentricity(obs.fired[i].dv > 0, obs.nu)

-----------------------------------------------------------------------------
(* The mission clock across orbit resets, checked under Spec                 *)

\* C25: the missionTime passed to an update call of the enabled controller
\* is never below the missionTime passed to the call before it, orbit resets
\* included, and the stored lastBurnTime is never ahead of it
C25_MissionTimeMonotonic ==
  (Updated /\ ctl.enabled)
    => /\ obs.missionTime >= obs.prevUpdT
       /\ ctl.lastBurnTime <= obs.missionTime

-----------------------------------------------------------------------------
(* The controller's true anomaly on the orbit setOrbit initialises, checked  *)
(* under Spec                                                               *)

\* the true anomaly the last update computed from the position it was given
\* (part_002:42-44, part_001:42-45, part_001:1279-1281)
controllerTrueAnomaly ==
  LET theta == AngleFromXAxis(obs.nu, env.omega)
  IN IF variant = "perturb"
     THEN trueAnomalyPerturb(theta, IF env.hasOmega THEN env.omega ELSE NaN)
     ELSE trueAnomalyOf(theta, ctl.argumentOfPerigee)

\* the satellite flies the ellipse setOrbit(42000) initialised
OnPresetEllipse ==
  /\ env.alt = 42000
  /\ env.orbit = presetOrbit(env.alt)
  /\ env.omega = presetOmega(env.alt)

\* C26: on the ellipse setOrbit initialises for the HEO preset, the true
\* anomaly update computes is 0 at the actual perigee and pi at the actual
\* apogee: in the burn windows it equals the actual true anomaly
C26_PerigeeConsistentWithSetOrbit ==
  (Updated /\ ctl.enabled /\ variant \in Variants /\ OnPresetEllipse
     /\ InBurnWindow(variant, obs.nu))
    => controllerTrueAnomaly = obs.nu

\* C27: for every position and every value passed to setArgumentOfPerigee,
\* the true anomaly update computes lies in [0, 2 pi)
C27_TrueAnomalyNormalized ==
  (Updated /\ ctl.enabled /\ variant \in {"fixed", "adv"})
    => (controllerTrueAnomaly >= 0 /\ controllerTrueAnomaly < TwoPi)

-----------------------------------------------------------------------------
(* SpecSequencer: the MissionSequencer of part_001:575-662 inside the        *)
(* fuel-aware controller.  A host adds goals and completes them through the  *)
(* sequencer's methods; update consults the sequencer on every enabled tick  *)
(* (part_001:1455-1461).                                                     *)

\* the goals a host plans: [targetAlt in 0.1 km, targetEcc in 0.0001]
Missions == {"A", "B", "C"}

missionOf(m) ==
  CASE m = "A" -> [targetAlt |-> 4000, targetEcc |-> 0]
    [] m = "B" -> [targetAlt |-> 4100, targetEcc |-> 0]
    [] m = "C" -> [targetAlt |-> 4000, targetEcc |-> 0]

\* activeMission = null
NoMission == "none"

\* getNextBurn returned null
NoBurn == [deltaV |-> 0, direction |-> "none", reason |-> Reason("none", <<>>)]

\* part_001:576-582
NewSequencer ==
  [missionPlan |-> <<>>, currentMissionIdx |-> 0, activeMission |-> NoMission,
   missionPhase |-> "planning", lastBurnTime |-> 0,
   status |-> [m \in Missions |-> "planned"]]

\* part_001:586-592
addMission(s, mission) ==
  LET plan == Append(s.missionPlan, mission)
  IN IF s.activeMission = NoMission /\ Len(plan) = 1
     THEN [s EXCEPT !.missionPlan = plan, !.activeMission = mission,
                    !.missionPhase = "planning"]
     ELSE [s EXCEPT !.missionPlan = plan]

\* part_001:598-600
hasActivePlan(s) == Len(s.missionPlan) > 0

\* 5 km and 0.001 (part_001:609)
AltTolerance == 50

EccTolerance == 10

\* part_001:602-610
checkMissionComplete(currentAlt, currentEcc, mission) ==
  IF mission = NoMission
  THEN FALSE
  ELSE /\ Abs(currentAlt - missionOf(mission).targetAlt) < AltTolerance
       /\ Abs(currentEcc - missionOf(mission).targetEcc) < EccTolerance

\* part_001:612-627; missionPlan[currentMissionIdx] counts from 0
completeMission(s) ==
  IF s.activeMission # NoMission
  THEN LET idx == s.currentMissionIdx + 1
           s1 == [s EXCEPT !.status[s.activeMission] = "complete",
                           !.missionPhase = "complete",
                           !.currentMissionIdx = idx]
       IN IF idx < Len(s.missionPlan)
          THEN [s1 EXCEPT !.activeMission = s.missionPlan[idx + 1],
                          !.missionPhase = "planning"]
          ELSE [s1 EXCEPT !.activeMission = NoMission, !.missionPlan = <<>>]
  ELSE s

\* 20 km (part_001:639)
TransferThreshold == 200

\* part_001:629-661: the sequencer it leaves and the burn intent it returns
getNextBurn(s, currentAlt, ecc) ==
  IF s.activeMission = NoMission
  THEN [seq |-> s, burn |-> NoBurn]
  ELSE LET mission == missionOf(s.activeMission)
           altError == mission.targetAlt - currentAlt
       IN IF Abs(altError) > TransferThreshold
          THEN [seq |-> [s EXCEPT !.missionPhase = "transfer"],
                burn |-> [deltaV |-> Abs(altError) * 500,
                          direction |-> IF altError > 0 THEN "prograde" ELSE "retrograde",
                          reason |-> Reason("Transfer to",
                                            <<mission.targetAlt, RoundDiv(altError, 10)>>)]]
          ELSE IF ecc > mission.targetEcc + EccTolerance
               THEN [seq |-> [s EXCEPT !.missionPhase = "circularize"],
                     burn |-> [deltaV |-> ecc * 1000, direction |-> "retrograde",
                               reason |-> Reason("Circularize: e=", <<ecc>>)]]
               ELSE [seq |-> [s EXCEPT !.missionPhase = "complete"], burn |-> NoBurn]

\* the orbits the sequencer is exercised on: on the 400 km target, eccentric
\* about it, and 10 km above it
SequencerOrbits == {"L1", "L2", "L3"}

\* mission seconds and performance.now() seconds between two calls of update;
\* at a low time scale two calls fall within the same second
SeqDtSet == {0, 121}

SeqWallSet == {0, 31}

MaxSeqTime == 121

MaxSeqNow == 31

InitSequencer ==
  /\ variant = "adv"
  /\ burnQueue = <<>>
  /\ qcalls = 0
  /\ qlog = [last |-> NoCall, prev |-> NoCall]
  /\ ctl = NewAutopilot
  /\ \E orbit \in SequencerOrbits :
       env = [alt |-> 400, orbit |-> orbit, omega |-> 0, hasOmega |-> FALSE,
              propellant |-> propellantOf(400), perigeeAbsent |-> FALSE,
              missionElapsedSeconds |-> 0, now |-> 0, ticks |-> 0,
              seq |-> NewSequencer, added |-> <<>>, everActive |-> {}]
  /\ obs = NoUpdate
  /\ hist = [frames |-> 0]

\* the goals that have been the active one
EverActive(s) ==
  IF s.activeMission = NoMission THEN env.everActive
  ELSE env.everActive \cup {s.activeMission}

\* a host plans a goal; each goal is planned once
AddMission(mission) ==
  /\ \A i \in 1..Len(env.added) : env.added[i] # mission
  /\ \E s \in {addMission(env.seq, mission)} :
       env' = [env EXCEPT !.seq = s, !.added = Append(@, mission),
                          !.everActive = EverActive(s)]
  /\ obs' = [NoUpdate EXCEPT !.op = "addMission"]
  /\ UNCHANGED <<variant, burnQueue, ctl, qcalls, qlog, hist>>

\* a host reports the active goal as reached
CompleteMission ==
  /\ \E s \in {completeMission(env.seq)} :
       env' = [env EXCEPT !.seq = s, !.everActive = EverActive(s)]
  /\ obs' = [op |-> "completeMission", before |-> env.seq]
  /\ UNCHANGED <<variant, burnQueue, ctl, qcalls, qlog, hist>>

\* one call of update of the fuel-aware controller (part_001:1261-1474) with
\* the satellite at true anomaly nu: the control laws, the mission sequencing
\* step of 1455-1461 and the execute step
UpdateSequencer(nu, dt, wall) ==
  /\ env.missionElapsedSeconds + dt <= MaxSeqTime
  /\ env.now + wall <= MaxSeqNow
  /\ LET missionTime == env.missionElapsedSeconds + dt
         now == env.now + wall
         consulted == ctl.enabled /\ hasActivePlan(env.seq)
     IN \E out \in {update(variant, ctl, burnQueue, UpdateInput(nu, missionTime, now, 0))},
           next \in {IF consulted
                     THEN getNextBurn(env.seq, Orbit(env.orbit).alt[nu], Orbit(env.orbit).ecc)
                     ELSE [seq |-> env.seq, burn |-> NoBurn]} :
        /\ ctl' = out.ctl
        /\ burnQueue' = out.q
        /\ env' = [env EXCEPT !.missionElapsedSeconds = missionTime, !.now = now,
                              !.seq = next.seq]
        /\ obs' = [op |-> "update", nu |-> nu, consulted |-> consulted,
                   nextBurn |-> next.burn, fired |-> out.fired]
  /\ hist' = [frames |-> 1 - hist.frames]
  /\ UNCHANGED <<variant, qcalls, qlog>>

NextSequencer ==
  \/ \E mission \in Missions : AddMission(mission)
  \/ CompleteMission
  \/ \E enabled \in BOOLEAN : SetEnabled(enabled)
  \/ \E nu \in NuSet, dt \in SeqDtSet, wall \in SeqWallSet : UpdateSequencer(nu, dt, wall)

SpecSequencer == InitSequencer /\ [][NextSequencer]_vars

\* the driver reaches a frame on which runAutopilot runs: hist.frames is the
\* parity of the update calls made, and only UpdateSequencer changes it
AutopilotFrame == hist' = [frames |-> 1 - hist.frames]

\* physicsLoop runs on an interval timer and calls runAutopilot every 30th
\* frame (main.js:698-727): update ticks keep coming.  Nothing obliges a host
\* to call addMission or completeMission.
SpecSequencerFair == SpecSequencer /\ WF_hist(AutopilotFrame)

-----------------------------------------------------------------------------
(* Claims about the mission sequencer, checked under SpecSequencer           *)

\* the place of a goal in the order of addition
RECURSIVE AddedAt(_, _)
AddedAt(mission, i) ==
  IF i > Len(env.added) THEN 0
  ELSE IF env.added[i] = mission THEN i ELSE AddedAt(mission, i + 1)

\* completeMission has just completed an active goal
CompletedActive ==
  obs.op = "completeMission" /\ obs.before.activeMission # NoMission

\* C28: completing the active goal makes the goal added next after it the
\* active goal whenever there is one, and the plan is emptied only when every
\* added goal has been active
C28_CompletionAdvancesInOrder ==
  CompletedActive
    => LET at == AddedAt(obs.before.activeMission, 1)
       IN /\ at < Len(env.added) => env.seq.activeMission = env.added[at + 1]
          /\ env.seq.missionPlan = <<>>
               => \A i \in 1..Len(env.added) : env.added[i] \in env.everActive

\* on the last update tick the sequencer was consulted with goal m active and
\* the completion criteria of checkMissionComplete held at the satellite's
\* position
CriteriaMetOnTick(m) ==
  /\ obs.op = "update"
  /\ obs.consulted
  /\ env.seq.activeMission = m
  /\ checkMissionComplete(Orbit(env.orbit).alt[obs.nu], Orbit(env.orbit).ecc, m)

\* C29: when the active goal's completion criteria are met on an enabled
\* update tick, the sequencer eventually advances: the goal stops being the
\* active one (the next goal takes its place, or the plan is emptied)
C29_SequencerEventuallyAdvances ==
  \A m \in Missions : CriteriaMetOnTick(m) ~> (env.seq.activeMission # m)

\* C30: when getNextBurn, consulted by update for an active goal, reports the
\* phase complete and returns no burn intent, the completion criteria of
\* checkMissionComplete hold: altitude error below 5 km and eccentricity
\* error below 0.001
C30_CompletePhaseMeansCriteriaMet ==
  (obs.op = "update" /\ obs.consulted /\ env.seq.activeMission # NoMission
     /\ env.seq.missionPhase = "complete" /\ obs.nextBurn = NoBurn)
    => checkMissionComplete(Orbit(env.orbit).alt[obs.nu], Orbit(env.orbit).ecc,
                            env.seq.activeMission)

-----------------------------------------------------------------------------
(* Claims about the transfer planner, checked under SpecDriver               *)

\* C31: planTransfer returns null exactly when r1 >= r2, and for 0 < r1 < r2
\* the transfer it returns has a positive, finite totalDv and transferTime
C31_PlanTransferNullIffNotRaising ==
  obs.op = "planTransfer"
    => /\ (obs.plan = NoTransfer) = (obs.r1 >= obs.r2)
       /\ (0 < obs.r1 /\ obs.r1 < obs.r2)
            => /\ obs.plan.totalDv > 0 /\ obs.plan.totalDv < SqrtCap
               /\ obs.plan.transferTime > 0 /\ obs.plan.transferTime < SqrtCap

\* a transfer to a higher radius was planned
C31_Witness ==
  obs.op = "planTransfer" /\ obs.r1 < obs.r2 /\ obs.plan # NoTransfer

-----------------------------------------------------------------------------
(* SpecLoops: the two loops of the driver.  physicsLoop runs on a 16 ms      *)
(* interval timer and samples the controller when frameCount % 30 = 0;       *)
(* frameCount is advanced by renderLoop, which the browser calls once per    *)
(* animation frame and suspends while the page is hidden.                    *)

\* frameCount % 30 === 0 (main.js:727)
SampleEvery == 30

MaxFrames == 31

MaxPhysicsTicks == 32

\* the seconds one physics tick adds to the mission clock at time scale 60
PhysicsDt == 1

\* the satellite stays within the perigee window during the run
LoopNu == 100

InitLoops ==
  /\ variant \in AllVariants
  /\ burnQueue = <<>>
  /\ qcalls = 0
  /\ qlog = [last |-> NoCall, prev |-> NoCall]
  /\ ctl = setEnabled(variant, NewAutopilot, TRUE)
  /\ env = [alt |-> 400, orbit |-> "L1", omega |-> 0, hasOmega |-> FALSE,
            propellant |-> propellantOf(400), perigeeAbsent |-> FALSE,
            missionElapsedSeconds |-> 0, now |-> 0, ticks |-> 0, frameCount |-> 0]
  /\ obs = NoUpdate
  /\ hist = [evaluations |-> 0, gap |-> 0]

\* renderLoop of main.js:757-790: frameCount++ and drawing
RenderLoop ==
  /\ env.frameCount < MaxFrames
  /\ env' = [env EXCEPT !.frameCount = @ + 1]
  /\ obs' = [NoUpdate EXCEPT !.op = "renderLoop"]
  /\ UNCHANGED <<variant, burnQueue, ctl, qcalls, qlog, hist>>

\* physicsLoop of main.js:698-735: the clock advances and, when
\* frameCount % 30 = 0, runAutopilot calls update.  hist.gap counts the
\* physics ticks made since the controller was last evaluated.
PhysicsLoop ==
  /\ env.ticks < MaxPhysicsTicks
  /\ LET missionTime == env.missionElapsedSeconds + PhysicsDt
         evaluated == env.frameCount % SampleEvery = 0
     IN \E out \in {IF evaluated
                    THEN update(variant, ctl, burnQueue,
                                UpdateInput(LoopNu, missionTime, env.now, 0))
                    ELSE Outcome(ctl, burnQueue, burnQueue, <<>>, {})} :
        /\ ctl' = out.ctl
        /\ burnQueue' = out.q
        /\ env' = [env EXCEPT !.missionElapsedSeconds = missionTime, !.ticks = @ + 1]
        /\ obs' = [op |-> "physicsLoop", evaluated |-> evaluated,
                   first |-> hist.evaluations = 0, gap |-> hist.gap,
                   fired |-> out.fired]
        /\ hist' = [evaluations |-> IF evaluated THEN 1 ELSE hist.evaluations,
                    gap |-> IF evaluated THEN 0 ELSE hist.gap + 1]
  /\ UNCHANGED <<variant, qcalls, qlog>>

NextLoops == RenderLoop \/ PhysicsLoop

SpecLoops == InitLoops /\ [][NextLoops]_vars

\* C32: the controller is evaluated exactly once every 30 physics ticks: an
\* evaluation follows the one before it after 29 ticks without one, never on
\* the next tick, and no more than 29 ticks pass without an evaluation
C32_EvaluatedEvery30PhysicsTicks ==
  obs.op = "physicsLoop"
    => IF obs.evaluated
       THEN obs.first \/ obs.gap = SampleEvery - 1
       ELSE obs.gap + 1 <= SampleEvery - 1

-----------------------------------------------------------------------------
(* Claims about the sense and the fate of queued burns, checked under Spec   *)

\* the delta-v of the callback update made from the burn queue; the driver
\* adds it to the velocity along the velocity vector (main.js:1189-1191)
FiredDv == obs.fired[CHOOSE i \in 1..Len(obs.fired) : obs.fired[i].src = "queue"].dv

\* C33: a burn is applied in the sense it was enqueued with, however long it
\* waited: one enqueued prograde increases the speed along the velocity, one
\* enqueued retrograde decreases it
C33_AppliedInEnqueuedSense ==
  (Updated /\ FiredFromQueue)
    => /\ obs.firedSense = "prograde" => FiredDv > 0
       /\ obs.firedSense = "retrograde" => FiredDv < 0

\* the semi-major-axis corrections of the circular and the HEO regimes
\* (part_002:113, 145; part_001:1404, 1616; part_001:218, 252)
SmaKinds == {"SMA fix", "HEO SMA fix", "SMA adjust", "Molniya SMA"}

\* the sign of the semi-major-axis error formatted into the reason of b
SmaErrorSign(b) ==
  IF b.reason.k \in {"SMA fix", "HEO SMA fix"} THEN Sign(b.reason.p[1])
                                                ELSE -b.reason.p[1]

\* C34: every semi-major-axis correction is negative feedback: enqueued
\* retrograde when the semi-major axis is above its target and prograde when it
\* is below, in the circular and in the HEO regime
C34_SmaCorrectionNegativeFeedback ==
  Updated =>
    \A i \in 1..Len(obs.added) :
      LET b == obs.added[i]
          sense == SenseAt(b, AngleFromXAxis(obs.nu, env.omega))
      IN b.reason.k \in SmaKinds
           => /\ SmaErrorSign(b) > 0 => sense = "retrograde"
              /\ SmaErrorSign(b) < 0 => sense = "prograde"

\* both samples lie in the burn window of one apsis (part_002:56-57)
SameWindow(nu1, nu2) ==
  \/ nearPerigeeOf(nu1) /\ nearPerigeeOf(nu2)
  \/ nearApogeeOf(nu1) /\ nearApogeeOf(nu2)

\* the correction kinds among the burns of a sequence
KindsOf(burns) == {burns[i].reason.k : i \in 1..Len(burns)}

MaxRuns == 3

\* mission seconds between two sampled runs
RunDtSet == {0, 121}

\* the callback is invoked once for each delta-v of fired, in order; the
\* driver's state after the calls and the delta-v each call added to state.vel
RECURSIVE ApplyFired(_, _, _, _, _)
ApplyFired(d, alt, rescueMode, fired, applied) ==
  IF fired = <<>>
  THEN [d |-> d, applied |-> applied]
  ELSE LET r == autopilotFireThruster(rescueMode, d, alt, Head(fired).dv)
       IN IF r.applied = 0
          THEN ApplyFired(d, alt, rescueMode, Tail(fired), Append(applied, 0))
          ELSE ApplyFired(r.d, alt, rescueMode, Tail(fired), Append(applied, r.applied))

\* the orbits the satellite is on when runAutopilot is sampled
RunOrbits(alt) == OrbitsOf(alt) \ {"E1", "E2"}

\* setOrbit has loaded a preset (main.js:333-335) and the autopilot checkbox
\* is ticked (main.js:589)
InitRun ==
  /\ variant \in AllVariants
  /\ burnQueue = <<>>
  /\ qcalls = 0
  /\ qlog = [last |-> NoCall, prev |-> NoCall]
  /\ ctl = setEnabled(variant, NewAutopilot, TRUE)
  /\ \E alt \in PresetAlts, orbit \in OrbitIds :
       /\ orbit \in RunOrbits(alt)
       /\ env = [alt |-> alt, orbit |-> orbit, omega |-> 0, hasOmega |-> FALSE,
                 propellant |-> NoPropellant, perigeeAbsent |-> FALSE,
                 missionElapsedSeconds |-> 0, now |-> 0, ticks |-> 0,
                 d |-> NewDriver(alt)]
  /\ obs = [op |-> "none"]
  /\ hist = [old |-> <<>>]

\* physicsLoop advances the mission clock by dt and recharges the battery when
\* the satellite is sunlit (main.js:721-724, 1259-1284), then runAutopilot
\* calls update with autopilotFireThruster as its callback (main.js:619-668)
RunAutopilot(nu, dt, sunlit) ==
  /\ env.ticks < MaxRuns
  /\ LET missionTime == env.missionElapsedSeconds + dt
         now == env.now + 1
         charged == IF sunlit
                    THEN [env.d EXCEPT !.electricThrusterPower =
                                         rechargePower(@, env.alt, dt)]
                    ELSE env.d
         enabledAtRun == ctl.enabled
     IN \E out \in {update(variant, ctl, burnQueue, UpdateInput(nu, missionTime, now, 0))} :
        \E drv \in {ApplyFired(charged, env.alt, out.ctl.rescueMode, out.fired, <<>>)},
           old \in {hist.old \o [i \in 1..Len(Added(burnQueue, out.enq)) |-> FALSE]} :
          /\ ctl' = out.ctl
          /\ burnQueue' = out.q
          /\ env' = [env EXCEPT !.missionElapsedSeconds = missionTime, !.now = now,
                                !.ticks = @ + 1, !.d = drv.d]
          /\ obs' = [op |-> "runAutopilot", nu |-> nu, missionTime |-> missionTime,
                     fired |-> out.fired, applied |-> drv.applied,
                     added |-> Added(burnQueue, out.enq),
                     prevBurnT |-> ctl.lastBurnTime, power |-> charged.electricThrusterPower,
                     enabled |-> enabledAtRun,
                     firedOld |-> IF \E i \in 1..Len(out.fired) : out.fired[i].src = "queue"
                                  THEN Head(old) ELSE FALSE]
          /\ hist' = [old |-> IF \E i \in 1..Len(out.fired) : out.fired[i].src = "queue"
                              THEN Tail(old) ELSE old]
  /\ UNCHANGED <<variant, qcalls, qlog>>

\* the autopilot checkbox (main.js:588-589); hist.old marks the burns that
\* were pending when the controller was last switched off
ToggleAutopilot(enabled) ==
  /\ ctl' = setEnabled(variant, ctl, enabled)
  /\ hist' = [old |-> IF enabled THEN hist.old
                      ELSE [i \in 1..Len(burnQueue) |-> TRUE]]
  /\ obs' = [op |-> "setEnabled", enabled |-> enabled]
  /\ UNCHANGED <<variant, burnQueue, env, qcalls, qlog>>

NextRun ==
  \/ \E nu \in NuSet, dt \in RunDtSet, sunlit \in BOOLEAN : RunAutopilot(nu, dt, sunlit)
  \/ \E enabled \in BOOLEAN : ToggleAutopilot(enabled)

SpecRun == InitRun /\ [][NextRun]_vars

\* C36: a burn removed from the queue is always applied to the satellite: when
\* the driver cannot execute it (insufficient battery or propellant, or
\* crashed) the burn is still at the head of the queue and lastBurnTime is not
\* advanced
C36_RemovedBurnIsApplied ==
  obs.op = "runAutopilot" =>
    \A i \in 1..Len(obs.fired) :
      obs.fired[i].src = "queue"
        => \/ obs.applied[i] # 0
           \/ /\ burnQueue # <<>>
              /\ Head(burnQueue) = obs.fired[i].burn
              /\ ctl.lastBurnTime = obs.prevBurnT

\* C37: no burn that was enqueued before setEnabled(false) is fired after a
\* later setEnabled(true): disabling the controller cancels all pending burns
C37_DisableCancelsPendingBurns ==
  (obs.op = "runAutopilot" /\ \E i \in 1..Len(obs.fired) : obs.fired[i].src = "queue")
    => ~obs.firedOld

\* the burn a run of update fired from the queue
QueueFired(o) == o.fired[CHOOSE i \in 1..Len(o.fired) : o.fired[i].src = "queue"].burn

\* C38: queued burns are fired in the order in which they were enqueued: the
\* burn fired is the oldest pending one, and the burns enqueued after it stay
\* pending in their order
C38_FiredFirstInFirstOut ==
  [][(/\ obs'.op = "runAutopilot"
      /\ \E i \in 1..Len(obs'.fired) : obs'.fired[i].src = "queue")
       => /\ QueueFired(obs') = Head(burnQueue \o obs'.added)
          /\ burnQueue' = Tail(burnQueue \o obs'.added)]_vars

\* a burn was fired while a burn enqueued after it is pending
C38_Witness ==
  /\ obs.op = "runAutopilot"
  /\ \E i \in 1..Len(obs.fired) : obs.fired[i].src = "queue"
  /\ burnQueue # <<>>
  /\ QueueFired(obs) # Head(burnQueue)

\* C39: while the controller is disabled, update has no effect: it invokes no
\* thruster callback and leaves the burn queue, rescueMode, lastBurnTime and
\* all other control state unchanged
C39_DisabledUpdateHasNoEffect ==
  [][(obs'.op = "runAutopilot" /\ ~obs'.enabled)
       => /\ obs'.fired = <<>>
          /\ burnQueue' = burnQueue
          /\ ctl' = ctl]_vars

\* update ran on a disabled controller that holds a pending burn whose
\* interval has elapsed
C39_Witness ==
  /\ obs.op = "runAutopilot"
  /\ ~obs.enabled
  /\ burnQueue # <<>>
  /\ obs.missionTime - ctl.lastBurnTime > MinBurnInterval

\* ---------------------------------------------------------------------------
\* OrbitPredictor of part_001:665-797.  Positions in m, velocities in mm/s,
\* accelerations in mm/s^2, dt in s.  No caller passes a measurement
\* (part_001:909), so the covariance P, which only update(measurement, H) and
\* getUncertainty read, is carried as the number of times predict propagated it.
\* ---------------------------------------------------------------------------

\* this.lastUpdateTime = null of part_001:671
Null == "null"

\* part_001:667-671
NewPredictor ==
  [state |-> [x |-> 0, y |-> 0, vx |-> 0, vy |-> 0], P |-> 0, lastUpdateTime |-> Null]

\* Re of part_001:742, in km
J2EarthRadiusKm == 6378

\* 1.5 * J2 of part_001:743-746, in millionths
J2FactorMicro == 1624

\* part_001:736-766: one Euler step under gravity and J2.  The drag term of
\* part_001:753-758 is below 0.001 mm/s^2 from 200 km altitude upwards and
\* vanishes at this resolution.
integrateOrbitalDynamics(state, dt) ==
  LET xKm == RoundDiv(state.x, 1000)
      yKm == RoundDiv(state.y, 1000)
      r == Sqrt(xKm * xKm + yKm * yKm)
      grav == MuOver(r) \div r
      ax_grav == -RoundDiv(grav * xKm, r)
      ay_grav == -RoundDiv(grav * yKm, r)
      ratio == (J2EarthRadiusKm * 1000) \div r
      j2_scaled == (((grav * J2FactorMicro) \div 1000) * ratio) \div 1000
      j2_factor == -((j2_scaled * ratio) \div 1000)
      sin_lat_sq == (((Abs(yKm) * 1000) \div r) * ((Abs(yKm) * 1000) \div r)) \div 1000
      j2_radial == RoundDiv(j2_factor * (1000 - 5 * sin_lat_sq), 1000)
      j2_polar == RoundDiv(j2_factor * 2 * yKm, r)
      ax_j2 == RoundDiv(j2_radial * xKm, r * 1000)
      ay_j2 == RoundDiv(j2_radial * yKm, r * 1000) + RoundDiv(j2_polar, 1000)
      ax == ax_grav + ax_j2
      ay == ay_grav + ay_j2
  IN [x |-> state.x + RoundDiv(state.vx * dt, 1000),
      y |-> state.y + RoundDiv(state.vy * dt, 1000),
      vx |-> state.vx + ax * dt,
      vy |-> state.vy + ay * dt]

\* part_001:703-711: the state parameter is not read
predict(p, state, dt) ==
  [p EXCEPT !.state = integrateOrbitalDynamics(p.state, dt), !.P = @ + 1]

\* part_001:787-797 with measurement = null
propagate(p, state, dt) ==
  predict(IF p.lastUpdateTime = Null THEN [p EXCEPT !.state = state] ELSE p, state, dt)

\* calls of propagate in a behaviour
MaxPropagate == 3

\* the caller's states: circular and eccentric low orbits on the x and the y axis
CallerStates ==
  {[x |-> 6771000, y |-> 0, vx |-> 0, vy |-> 7672000],
   [x |-> 0, y |-> 6771000, vx |-> -7672000, vy |-> 0],
   [x |-> 7000000, y |-> 0, vx |-> 0, vy |-> 7546000],
   [x |-> 6771000, y |-> 0, vx |-> 0, vy |-> 7800000]}

\* the horizon of part_001:909 and a physics step
PropagateDtSet == {1, 60}

\* the controller is constructed with a fresh predictor (part_001:878)
InitPredictor ==
  /\ variant = "adv"
  /\ burnQueue = <<>>
  /\ qcalls = 0
  /\ qlog = [last |-> NoCall, prev |-> NoCall]
  /\ ctl = NewAutopilot
  /\ env = [orbitPredictor |-> NewPredictor, calls |-> 0]
  /\ obs = [op |-> "none"]
  /\ hist = [calls |-> 0]

\* orbitPredictor.propagate(state, dt)
Propagate(state, dt) ==
  /\ env.calls < MaxPropagate
  /\ env' = [orbitPredictor |-> propagate(env.orbitPredictor, state, dt),
             calls |-> env.calls + 1]
  /\ obs' = [op |-> "propagate", state |-> state, dt |-> dt,
             first |-> env.calls = 0, before |-> env.orbitPredictor.state,
             result |-> propagate(env.orbitPredictor, state, dt).state]
  /\ UNCHANGED <<variant, burnQueue, ctl, hist, qcalls, qlog>>

NextPredictor == \E state \in CallerStates, dt \in PropagateDtSet : Propagate(state, dt)

SpecPredictor == InitPredictor /\ [][NextPredictor]_vars

\* C40: propagate initialises the estimate from the caller's state only on its
\* first call; every later call continues from the estimator's own previous
\* estimate instead of overwriting it with the caller's state
C40_PropagateInitialisesOnce ==
  obs.op = "propagate" =>
    /\ obs.first => obs.result = integrateOrbitalDynamics(obs.state, obs.dt)
    /\ ~obs.first => obs.result = integrateOrbitalDynamics(obs.before, obs.dt)

====
